---- MODULE Spec2Model ----
(***************************************************************************)
(* macos-trust: the scan orchestrator (engine.py), the rule engine         *)
(* (rules.py), the configuration filter, the baseline differ (baseline.py) *)
(* and the command line driver (cli.py).                                   *)
(*                                                                         *)
(* Python strings are sequences of one-character strings, so that string   *)
(* equality, lexical order, prefix tests and regular expression matching   *)
(* are computed and not assumed.  Optional values (x | None) are sequences *)
(* of length at most one: <<>> is None, <<v>> is the value v.              *)
(***************************************************************************)
EXTENDS Integers, Sequences, FiniteSets, Bags, TLC

VARIABLES
    apps_inv,      \* what scan_applications() finds on this host (with the stubbed signals)
    launchd_inv,   \* what scan_launchd() finds on this host
    kexts_inv,     \* what scan_kexts() would find on this host
    extensions_inv,\* what scan_browser_extensions() would find on this host
    inject,        \* the one artifact whose collector call / analysis raises, or none
    config,        \* the Config | None handed to run_scan
    parallel,      \* run_scan's parallel flag
    pc,            \* position of run_scan
    enum_failed,   \* the categories whose enumeration raised
    futures,       \* parallel mode: index -> "submitted" | "finished" | "collected"
    cursor,        \* sequential mode: index of the next artifact of the loop
    findings,      \* the category's aggregate list (findings of _analyze_*_sequential/_parallel)
    all_findings,  \* run_scan's all_findings
    report,        \* the ScanReport's findings once run_scan returned
    b_file,        \* the baseline snapshot file on disk
    b_findings,    \* Baseline.findings of the Baseline object
    b_out,         \* the last three Baseline calls with what they returned
    flt,           \* the filter driver: its input, configuration and result
    cli,           \* the command line run: its options, position and outcome
    rule,          \* the rule engine called directly: artifact, signals, config, result
    lib,           \* models.py called directly: the arguments of one call and its result
    pool,          \* a ThreadPoolExecutor of one category: its size and its tasks
    ctx            \* the process running scans: the AppContext class cache, the workers

vars == <<apps_inv, launchd_inv, kexts_inv, extensions_inv, inject, config, parallel, pc,
          enum_failed, futures, cursor, findings, all_findings, report, b_file, b_findings,
          b_out, flt, cli, rule, lib, pool, ctx>>

scan_vars == <<apps_inv, launchd_inv, kexts_inv, extensions_inv, inject, config, parallel,
               pc, enum_failed, futures, cursor, findings, all_findings, report>>
baseline_vars == <<b_file, b_findings, b_out>>
side_vars == <<lib, pool, ctx>>

\* the direct calls of models.py, the pool and the process cache are not in use
SideIdle == lib = <<>> /\ pool = <<>> /\ ctx = <<>>

(***************************************************************************)
(* Strings                                                                 *)
(***************************************************************************)
Ascii ==
    " " :> 32 @@ "(" :> 40 @@ ")" :> 41 @@ "-" :> 45 @@ ":" :> 58 @@ "A" :> 65 @@
    "B" :> 66 @@ "C" :> 67 @@ "G" :> 71 @@ "I" :> 73 @@ "L" :> 76 @@ "M" :> 77 @@ "Q" :> 81 @@
    "S" :> 83 @@ "V" :> 86 @@ "a" :> 97 @@ "b" :> 98 @@ "c" :> 99 @@ "d" :> 100 @@
    "e" :> 101 @@ "f" :> 102 @@ "g" :> 103 @@ "h" :> 104 @@ "i" :> 105 @@
    "k" :> 107 @@ "l" :> 108 @@ "m" :> 109 @@ "n" :> 110 @@ "o" :> 111 @@
    "p" :> 112 @@ "r" :> 114 @@ "s" :> 115 @@ "t" :> 116 @@ "u" :> 117 @@
    "v" :> 118 @@ "w" :> 119 @@ "y" :> 121

\* s < t for Python str: the first differing character decides, a proper prefix is smaller
StrLt(s, t) ==
    \E k \in 1..Len(t) :
        /\ k - 1 <= Len(s)
        /\ \A j \in 1..(k - 1) : s[j] = t[j]
        /\ \/ k = Len(s) + 1
           \/ Ascii[s[k]] < Ascii[t[k]]

StrLe(s, t) == s = t \/ StrLt(s, t)

\* t.startswith(p)
StartsWith(t, p) == Len(p) <= Len(t) /\ SubSeq(t, 1, Len(p)) = p

\* p in t (substring)
Contains(t, p) == \E i \in 0..(Len(t) - Len(p)) : SubSeq(t, i + 1, i + Len(p)) = p

UpperLetters ==
    <<"A", "B", "C", "D", "E", "F", "G", "H", "I", "J", "K", "L", "M", "N", "O", "P",
      "Q", "R", "S", "T", "U", "V", "W", "X", "Y", "Z">>
LowerLetters ==
    <<"a", "b", "c", "d", "e", "f", "g", "h", "i", "j", "k", "l", "m", "n", "o", "p",
      "q", "r", "s", "t", "u", "v", "w", "x", "y", "z">>

\* str.lower() on ASCII
LowerChar(c) ==
    IF \E i \in 1..26 : UpperLetters[i] = c
    THEN LowerLetters[CHOOSE i \in 1..26 : UpperLetters[i] = c]
    ELSE c

Lower(s) == [i \in 1..Len(s) |-> LowerChar(s[i])]

\* s.split(sep) for a one-character separator
RECURSIVE Split(_, _)
Split(s, sep) ==
    IF \A i \in 1..Len(s) : s[i] # sep THEN <<s>>
    ELSE LET i == CHOOSE k \in 1..Len(s) : s[k] = sep /\ \A j \in 1..(k - 1) : s[j] # sep
         IN  <<SubSeq(s, 1, i - 1)>> \o Split(SubSeq(s, i + 1, Len(s)), sep)

\* s.replace(old, new) for a non-empty old
RECURSIVE Replace(_, _, _)
Replace(s, old, new) ==
    IF Len(s) < Len(old) THEN s
    ELSE IF SubSeq(s, 1, Len(old)) = old
    THEN new \o Replace(SubSeq(s, Len(old) + 1, Len(s)), old, new)
    ELSE <<s[1]>> \o Replace(Tail(s), old, new)

(***************************************************************************)
(* models.py                                                               *)
(***************************************************************************)
Risk == {"HIGH", "MED", "LOW", "INFO"}

\* the table of Risk.__lt__
order == [HIGH |-> 0, MED |-> 1, LOW |-> 2, INFO |-> 3]

\* Risk.__lt__: "order[self] > order[other]"
Risk__lt__(self, other) == order[self] > order[other]

\* Risk.__le__, __gt__, __ge__ as the class derives them from __lt__ and ==
Risk__le__(self, other) == Risk__lt__(self, other) \/ self = other
\* a __gt__ written like __ge__ ("not self < other"): equal members would be greater
Risk__gt__not_lt(self, other) == ~Risk__lt__(self, other)
Risk__gt__(self, other) == ~Risk__le__(self, other)
Risk__ge__(self, other) == ~Risk__lt__(self, other)

\* Finding(id, category, risk, title, path); details, evidence and recommendation
\* are carried along by the program but are read by none of the modelled operations
Finding(id, category, risk, title, path) ==
    [id |-> id, category |-> category, risk |-> risk, title |-> title, path |-> path]

(***************************************************************************)
(* sorted(all_findings, key=lambda f: (f.risk, f.title))                   *)
(***************************************************************************)
\* (f.risk, f.title) < (g.risk, g.title): tuples compare by their first unequal item
KeyLt(f, g) ==
    IF f.risk # g.risk THEN Risk__lt__(f.risk, g.risk) ELSE StrLt(f.title, g.title)

Min(S) == CHOOSE x \in S : \A y \in S : x <= y

\* x goes before the first item that is greater than its key: equal keys keep their order
SortInsert(x, s) ==
    LET later == {p \in 1..Len(s) : KeyLt(x, s[p])}
        p == IF later = {} THEN Len(s) + 1 ELSE Min(later)
    IN  SubSeq(s, 1, p - 1) \o <<x>> \o SubSeq(s, p, Len(s))

RECURSIVE sorted(_)
sorted(s) ==
    IF s = <<>> THEN <<>>
    ELSE SortInsert(s[Len(s)], sorted(SubSeq(s, 1, Len(s) - 1)))

(***************************************************************************)
(* re: a pattern is a sequence of tokens                                    *)
(*   lit c    the character c          dotstar  ".*"                        *)
(*   bol      "^"                      eol      "$"                         *)
(*   lbracket "[" that is never closed (re.compile raises re.error)         *)
(***************************************************************************)
Lit(c) == [t |-> "lit", c |-> c]
DotStar == [t |-> "dotstar", c |-> ""]
Bol == [t |-> "bol", c |-> ""]
Eol == [t |-> "eol", c |-> ""]
LBracket == [t |-> "lbracket", c |-> ""]

RECURSIVE match_here(_, _, _, _)
match_here(pat, k, s, j) ==
    IF k > Len(pat) THEN TRUE
    ELSE LET tok == pat[k] IN
         CASE tok.t = "lit" ->
                  j <= Len(s) /\ s[j] = tok.c /\ match_here(pat, k + 1, s, j + 1)
           [] tok.t = "dotstar" ->
                  \E j2 \in j..(Len(s) + 1) : match_here(pat, k + 1, s, j2)
           [] tok.t = "bol" -> j = 1 /\ match_here(pat, k + 1, s, j)
           [] tok.t = "eol" -> j = Len(s) + 1 /\ match_here(pat, k + 1, s, j)
           [] OTHER -> FALSE

\* re.search(pattern, s): a match that begins anywhere in s
re_search(pat, s) == \E j \in 1..(Len(s) + 1) : match_here(pat, 1, s, j)

\* re.match(pattern, s): a match that begins at the first character of s
re_match(pat, s) == match_here(pat, 1, s, 1)

\* re.compile(pattern) does not raise re.error
re_compile_ok(pat) == \A k \in 1..Len(pat) : pat[k].t # "lbracket"

(***************************************************************************)
(* vendors.py                                                              *)
(***************************************************************************)
KNOWN_VENDORS ==
    {"9BNSXJN65R", "UBF8T346G9", "BJ4HAAB9B3", "MXGJJ98X76", "EQHXZ8M8AV", "6N38VWS5BX",
     "43AQ936H96", "4XRHD3P41Q", "2E337YPCZY", "5E9KR5BC68", "MXCNVGBRW2", "Apple",
     "0000000000", "PKV8ZPD836", "PXPBC95EF8"}

is_known_vendor(team_id) == team_id \in KNOWN_VENDORS

SYSTEM_HELPER_PATTERNS ==
    { <<"P", "r", "i", "v", "i", "l", "e", "g", "e", "d", "H", "e", "l", "p", "e", "r",
        "T", "o", "o", "l", "s">>,
      <<"X", "P", "C", "S", "e", "r", "v", "i", "c", "e", "s">>,
      <<"F", "r", "a", "m", "e", "w", "o", "r", "k", "s", "/">>,
      <<".", "f", "r", "a", "m", "e", "w", "o", "r", "k", "/">>,
      <<"/", "C", "o", "n", "t", "e", "n", "t", "s", "/", "L", "i", "b", "r", "a", "r",
        "y", "/">> }

USER_WRITABLE_PATHS ==
    { <<"/", "U", "s", "e", "r", "s", "/">>,
      <<"/", "t", "m", "p", "/">>,
      <<"/", "v", "a", "r", "/", "t", "m", "p", "/">>,
      <<"/", "p", "r", "i", "v", "a", "t", "e", "/", "t", "m", "p", "/">>,
      <<"~", "/">> }

is_system_helper_path(path) ==
    IF path = <<>> THEN FALSE
    ELSE \E pattern \in SYSTEM_HELPER_PATTERNS : Contains(path, pattern)

\* the path is lowered, the prefixes are not: "/Users/" is compared as written
is_user_writable_path(path) ==
    IF path = <<>> THEN FALSE
    ELSE \E prefix \in USER_WRITABLE_PATHS : StartsWith(Lower(path), prefix)

(***************************************************************************)
(* config.py                                                               *)
(***************************************************************************)
\* the dataclass with its defaults; the lists that are only searched are sets
Config(trusted_vendors, ignore_findings, ignore_patterns, trust_homebrew_cask, trust_old_apps) ==
    [ min_risk |-> "MED",
      exclude_vendors |-> {},
      trusted_vendors |-> trusted_vendors,
      ignore_findings |-> ignore_findings,
      ignore_patterns |-> ignore_patterns,
      trust_homebrew_cask |-> trust_homebrew_cask,
      trust_app_store |-> TRUE,
      trust_old_apps |-> trust_old_apps,
      old_app_days |-> 30 ]

DefaultConfig == Config({}, {}, <<>>, FALSE, FALSE)

\* Config.__post_init__: raises ValueError iff some ignore_patterns entry does not compile
post_init_raises(cfg) ==
    \E k \in 1..Len(cfg.ignore_patterns) : ~re_compile_ok(cfg.ignore_patterns[k])

(***************************************************************************)
(* engine.py: _apply_config_filters                                        *)
(***************************************************************************)
\* one turn of the loop: is `finding` appended to `filtered`?
filter_keeps(finding, cfg) ==
    IF finding.id \in cfg.ignore_findings THEN FALSE
    ELSE IF \E k \in 1..Len(cfg.ignore_patterns) :
                re_match(cfg.ignore_patterns[k], finding.id)
         THEN FALSE
         ELSE TRUE

RECURSIVE apply_config_filters(_, _)
apply_config_filters(fs, cfg) ==
    IF fs = <<>> THEN <<>>
    ELSE LET rest == apply_config_filters(Tail(fs), cfg) IN
         IF filter_keeps(Head(fs), cfg) THEN <<Head(fs)>> \o rest ELSE rest

(***************************************************************************)
(* context.py                                                              *)
(***************************************************************************)
\* parse_quarantine_source: the third ";"-separated field with "\x20" unescaped, None
\* if the value is empty or has fewer fields
parse_quarantine_source(quarantine_value) ==
    IF quarantine_value = <<>> THEN <<>>
    ELSE LET parts == Split(quarantine_value, ";")
         IN  IF Len(parts) >= 3
             THEN <<Replace(parts[3], <<"\\", "x", "2", "0">>, <<" ">>)>>
             ELSE <<>>

S_homebrew == <<"h", "o", "m", "e", "b", "r", "e", "w">>

\* variant of is_homebrew_quarantine: the whole attribute value is searched
is_homebrew_quarantine_any_field(quarantine_value) ==
    Contains(Lower(quarantine_value), S_homebrew)

\* source is not None and 'homebrew' in source.lower()
is_homebrew_quarantine(quarantine_value) ==
    LET source == parse_quarantine_source(quarantine_value)
    IN  source # <<>> /\ Contains(Lower(source[1]), S_homebrew)

(***************************************************************************)
(* rules.py                                                                *)
(***************************************************************************)
S_app == <<"a", "p", "p", ":">>
S_persistence == <<"p", "e", "r", "s", "i", "s", "t", "e", "n", "c", "e", ":">>
S_codesign_fail == <<":", "c", "o", "d", "e", "s", "i", "g", "n", "_", "f", "a", "i", "l">>
S_spctl_rejected ==
    <<":", "s", "p", "c", "t", "l", "_", "r", "e", "j", "e", "c", "t", "e", "d">>
S_quarantined == <<":", "q", "u", "a", "r", "a", "n", "t", "i", "n", "e", "d">>
S_quarantined_only ==
    <<":", "q", "u", "a", "r", "a", "n", "t", "i", "n", "e", "d", "_", "o", "n", "l", "y">>
S_verified == <<":", "v", "e", "r", "i", "f", "i", "e", "d">>
S_user_writable ==
    <<":", "u", "s", "e", "r", "_", "w", "r", "i", "t", "a", "b", "l", "e">>
T_codesign_fail ==
    <<"I", "n", "v", "a", "l", "i", "d", " ", "c", "o", "d", "e", " ", "s", "i", "g", "n",
      "a", "t", "u", "r", "e", ":", " ">>
T_spctl_rejected ==
    <<"G", "a", "t", "e", "k", "e", "e", "p", "e", "r", " ", "b", "l", "o", "c", "k", "e",
      "d", ":", " ">>
T_quarantined_app ==
    <<"Q", "u", "a", "r", "a", "n", "t", "i", "n", "e", "d", " ", "a", "p", "p", "l", "i",
      "c", "a", "t", "i", "o", "n", ":", " ">>
T_verified ==
    <<"V", "e", "r", "i", "f", "i", "e", "d", " ", "a", "p", "p", "l", "i", "c", "a", "t",
      "i", "o", "n", ":", " ">>
T_user_writable ==
    <<"S", "y", "s", "t", "e", "m", " ", "d", "a", "e", "m", "o", "n", " ", "u", "s", "e",
      "s", " ", "u", "s", "e", "r", "-", "w", "r", "i", "t", "a", "b", "l", "e", " ", "p",
      "a", "t", "h", ":", " ">>
T_quarantined_autorun ==
    <<"Q", "u", "a", "r", "a", "n", "t", "i", "n", "e", "d", " ", "p", "e", "r", "s", "i",
      "s", "t", "e", "n", "c", "e", " ", "i", "t", "e", "m", " ", "(", "a", "u", "t", "o",
      "-", "r", "u", "n", ")", ":", " ">>
T_quarantined_item ==
    <<"Q", "u", "a", "r", "a", "n", "t", "i", "n", "e", "d", " ", "p", "e", "r", "s", "i",
      "s", "t", "e", "n", "c", "e", " ", "i", "t", "e", "m", ":", " ">>

\* variant of Or: the fallback is taken even when a is there
Or_fallback(a, b) == b

\* `a or b` on strings
Or(a, b) == IF a # <<>> THEN a ELSE b

\* the artifact's display name and path as the _create_* helpers read them; an app
\* record has name/exec_path/app_path, a launch item has label/plist_path
IsApp(a) == a.kind = "app"
NameOf(a) == IF IsApp(a) THEN a.name ELSE a.label
PathOf(a) == IF IsApp(a) THEN Or(a.exec_path, a.app_path) ELSE a.plist_path

create_codesign_fail_finding(a, finding_id, category, risk) ==
    Finding(finding_id, category, risk, T_codesign_fail \o NameOf(a), PathOf(a))

\* variant of create_spctl_rejected_finding: no downgrade is applied
create_spctl_rejected_finding_high(a, finding_id, category, risk) ==
    Finding(finding_id, category, "HIGH", T_spctl_rejected \o NameOf(a), PathOf(a))

create_spctl_rejected_finding(a, finding_id, category, risk) ==
    Finding(finding_id, category, risk, T_spctl_rejected \o NameOf(a), PathOf(a))

create_quarantined_app_finding(app, finding_id) ==
    Finding(finding_id, "app", "LOW", T_quarantined_app \o app.name,
            Or(app.exec_path, app.app_path))

create_verified_app_finding(app, finding_id) ==
    Finding(finding_id, "app", "INFO", T_verified \o app.name,
            Or(app.exec_path, app.app_path))

create_user_writable_daemon_finding(item, finding_id) ==
    Finding(finding_id, "persistence", "HIGH", T_user_writable \o item.label,
            item.plist_path)

create_quarantined_persistence_finding(item, finding_id, run_at_load) ==
    IF run_at_load
    THEN Finding(finding_id, "persistence", "MED", T_quarantined_autorun \o item.label,
                 item.plist_path)
    ELSE Finding(finding_id, "persistence", "LOW", T_quarantined_item \o item.label,
                 item.plist_path)

\* variant of status_is: an absent signal counts as the verdict asked for
status_is_or_absent(result, status) == result = <<>> \/ result[1].status = status

\* `result and result.get("status") == status`
status_is(result, status) == result # <<>> /\ result[1].status = status

\* variant of known_vendor_of: the override list is not consulted
known_vendor_static(team_id, cfg) == team_id # "" /\ is_known_vendor(team_id)

\* variant of known_vendor_of: a config replaces the static table by its override list
known_vendor_override_only(team_id, cfg) ==
    IF cfg # <<>> THEN team_id # "" /\ team_id \in cfg[1].trusted_vendors
    ELSE team_id # "" /\ is_known_vendor(team_id)

\* known_vendor as both analyze_* compute it
known_vendor_of(team_id, cfg) ==
    \/ (team_id # "" /\ is_known_vendor(team_id))
    \/ (cfg # <<>> /\ team_id # "" /\ team_id \in cfg[1].trusted_vendors)

\* analyze_app; run_scan passes no entitlements_result, so rules 5 and 6 never fire.
\* AppContext(path) reads the host: app.is_app_store is whether the bundle holds an
\* App Store receipt, app.age_days the age os.stat reports.
analyze_app(app, codesign_result, spctl_result, quarantine_result, cfg) ==
    LET app_id_base == Or(app.bundle_id, app.name)
        path == Or(app.exec_path, app.app_path)
        team_id == IF codesign_result # <<>> THEN codesign_result[1].team_id ELSE ""
        is_signed == status_is(codesign_result, "ok")
        known_vendor == known_vendor_of(team_id, cfg)
        has_context == path # <<>>
        risk1 ==
            IF has_context /\ app.is_app_store THEN "MED"
            ELSE IF has_context /\ cfg # <<>> /\ cfg[1].trust_old_apps
                    /\ app.age_days >= cfg[1].old_app_days THEN "LOW"
            ELSE IF known_vendor THEN "MED"
            ELSE "HIGH"
        rule1 ==
            IF status_is(codesign_result, "fail")
            THEN <<create_codesign_fail_finding(
                      app, S_app \o app_id_base \o S_codesign_fail, "app", risk1)>>
            ELSE <<>>
        risk2 ==
            IF has_context /\ app.is_app_store THEN "MED"
            ELSE IF is_signed /\ known_vendor THEN "MED"
            ELSE "HIGH"
        rule2 ==
            IF status_is(spctl_result, "rejected")
            THEN <<create_spctl_rejected_finding(
                      app, S_app \o app_id_base \o S_spctl_rejected, "app", risk2)>>
            ELSE <<>>
        rule3 ==
            IF quarantine_result # <<>> /\ quarantine_result[1].is_quarantined = "true"
            THEN IF cfg # <<>> /\ cfg[1].trust_homebrew_cask
                    /\ is_homebrew_quarantine(quarantine_result[1].value)
                 THEN <<>>
                 ELSE <<create_quarantined_app_finding(
                           app, S_app \o app_id_base \o S_quarantined)>>
            ELSE <<>>
        rule4 ==
            IF is_signed /\ known_vendor /\ status_is(spctl_result, "accepted")
            THEN <<create_verified_app_finding(app, S_app \o app_id_base \o S_verified)>>
            ELSE <<>>
    IN  rule1 \o rule2 \o rule3 \o rule4

analyze_launchd(item, codesign_result, spctl_result, quarantine_result, cfg) ==
    LET persistence_id_base == S_persistence \o item.scope \o <<":">> \o item.label
        team_id == IF codesign_result # <<>> THEN codesign_result[1].team_id ELSE ""
        is_signed == status_is(codesign_result, "ok")
        known_vendor == known_vendor_of(team_id, cfg)
        is_helper == is_system_helper_path(item.program)
        rule1 ==
            IF status_is(codesign_result, "fail")
            THEN <<create_codesign_fail_finding(
                      item, persistence_id_base \o S_codesign_fail, "persistence",
                      IF known_vendor THEN "MED" ELSE "HIGH")>>
            ELSE <<>>
        risk2 ==
            IF is_signed /\ known_vendor /\ is_helper THEN "MED"
            ELSE IF is_signed /\ known_vendor THEN "MED"
            ELSE "HIGH"
        rule2 ==
            IF status_is(spctl_result, "rejected")
            THEN <<create_spctl_rejected_finding(
                      item, persistence_id_base \o S_spctl_rejected, "persistence", risk2)>>
            ELSE <<>>
        rule3 ==
            IF item.scope = <<"d", "a", "e", "m", "o", "n">>
               /\ is_user_writable_path(item.program)
            THEN <<create_user_writable_daemon_finding(
                      item, persistence_id_base \o S_user_writable)>>
            ELSE <<>>
        rule4 ==
            IF quarantine_result # <<>> /\ quarantine_result[1].is_quarantined = "true"
            THEN IF cfg # <<>> /\ cfg[1].trust_homebrew_cask
                    /\ is_homebrew_quarantine(quarantine_result[1].value)
                 THEN <<>>
                 ELSE IF item.run_at_load
                      THEN <<create_quarantined_persistence_finding(
                                item, persistence_id_base \o S_quarantined, TRUE)>>
                      ELSE <<create_quarantined_persistence_finding(
                                item, persistence_id_base \o S_quarantined_only, FALSE)>>
            ELSE <<>>
    IN  rule1 \o rule2 \o rule3 \o rule4

(***************************************************************************)
(* The host: artifacts as the scanners return them, each with the results  *)
(* its collectors are stubbed to return and the host facts its trust       *)
(* context reads.                                                          *)
(***************************************************************************)
CodesignResult(status, team_id) == [status |-> status, team_id |-> team_id]
SpctlResult(status) == [status |-> status]
QuarantineResult(is_quarantined, value) == [is_quarantined |-> is_quarantined, value |-> value]

NotQuarantined == QuarantineResult("false", <<>>)
\* "01c3;68c09dae;Safari;9902"
FromSafari ==
  QuarantineResult("true",
    <<"0", "1", "c", "3", ";", "6", "8", "c", "0", "9", "d", "a", "e", ";", "S", "a",
      "f", "a", "r", "i", ";", "9", "9", "0", "2">>)
\* "0181;697f95d3;Homebrew\x20Cask;082D"
FromHomebrew ==
  QuarantineResult("true",
    <<"0", "1", "8", "1", ";", "6", "9", "7", "f", "9", "5", "d", "3", ";", "H", "o",
      "m", "e", "b", "r", "e", "w", "\\", "x", "2", "0", "C", "a", "s", "k", ";", "0",
      "8", "2", "D">>)

\* "0083;homebrew": a marker without agent field
FromNoAgent ==
  QuarantineResult("true",
    <<"0", "0", "8", "3", ";", "h", "o", "m", "e", "b", "r", "e", "w">>)

AppRecord(app_path, name, bundle_id, has_exec, codesign, spctl, quarantine, is_app_store) ==
    [ kind |-> "app", name |-> name, bundle_id |-> bundle_id,
      exec_path |-> IF has_exec THEN app_path \o <<"/", "x">> ELSE <<>>,
      app_path |-> app_path,
      codesign |-> codesign, spctl |-> spctl, quarantine |-> quarantine,
      is_app_store |-> is_app_store, age_days |-> 40 ]

LaunchdRecord(plist_path, scope, label, program, program_exists, run_at_load, codesign, spctl, quarantine) ==
    [ kind |-> "launchd", scope |-> scope, label |-> label,
      plist_path |-> plist_path, program |-> program,
      program_exists |-> program_exists, run_at_load |-> run_at_load,
      codesign |-> codesign, spctl |-> spctl, quarantine |-> quarantine ]

\* two bundles that display the name A with different bundle ids, a second copy of
\* bundle a signed by a known vendor, a verified app without bundle id, and a bundle
\* without executable
AppProfiles ==
    { AppRecord(<<"/", "1">>, <<"A">>, <<"a">>, TRUE, CodesignResult("fail", ""),
                SpctlResult("rejected"), NotQuarantined, FALSE),
      AppRecord(<<"/", "2">>, <<"A">>, <<"b">>, TRUE, CodesignResult("fail", ""),
                SpctlResult("unknown"), FromSafari, FALSE),
      AppRecord(<<"/", "3">>, <<"A">>, <<"a">>, TRUE,
                CodesignResult("fail", "UBF8T346G9"),
                SpctlResult("accepted"), NotQuarantined, FALSE),
      AppRecord(<<"/", "4">>, <<"B">>, <<>>, TRUE, CodesignResult("ok", "UBF8T346G9"),
                SpctlResult("accepted"), FromHomebrew, FALSE),
      AppRecord(<<"/", "5">>, <<"B">>, <<"b">>, FALSE, CodesignResult("fail", ""),
                SpctlResult("rejected"), FromSafari, FALSE) }

LaunchdProfiles ==
    { LaunchdRecord(<<"/", "6">>, <<"d", "a", "e", "m", "o", "n">>, <<"L">>,
                    <<"/", "t", "m", "p", "/", "L">>, TRUE, TRUE,
                    CodesignResult("fail", ""), SpctlResult("rejected"), FromSafari),
      LaunchdRecord(<<"/", "7">>, <<"u", "s", "e", "r">>, <<"M">>, <<"/", "M">>, FALSE,
                    FALSE, CodesignResult("fail", ""), SpctlResult("rejected"),
                    FromSafari) }

KextRecord(name, bundle_id, type, location, loaded, status) ==
    [ kind |-> "kext", name |-> name, bundle_id |-> bundle_id,
      path |-> <<"/", "k", "/">> \o name, type |-> type, location |-> location,
      loaded |-> loaded, codesign |-> <<CodesignResult(status, "")>> ]

ExtensionRecord(browser, name, id, permissions, host_permissions) ==
    [ kind |-> "browser_extension", browser |-> browser, name |-> name, id |-> id,
      manifest_path |-> <<"/", "e", "/">> \o id, permissions |-> permissions,
      host_permissions |-> host_permissions ]

S_chrome == <<"c", "h", "r", "o", "m", "e">>
S_firefox == <<"f", "i", "r", "e", "f", "o", "x">>

\* a third-party kernel extension whose signature is invalid and one of the system's own
KextProfiles ==
    { KextRecord(<<"K">>, <<(<<"k">>)>>, "kext", "library", TRUE, "invalid"),
      KextRecord(<<"S">>, <<(<<"s">>)>>, "kext", "system", TRUE, "ok") }

\* a Chrome extension that may attach a debugger and one that only stores settings
ExtensionProfiles ==
    { ExtensionRecord(S_chrome, <<"E">>, <<"e">>, <<"debugger">>, <<>>),
      ExtensionRecord(S_chrome, <<"F">>, <<"f">>, <<"storage">>, <<>>) }

\* a directory lists a path once: the artifacts of an inventory are pairwise distinct
Distinct(s) == \A i, j \in 1..Len(s) : i # j => s[i] # s[j]

\* ".*:quarantined$"
PatQuarantined ==
    <<DotStar>> \o [i \in 1..Len(S_quarantined) |-> Lit(S_quarantined[i])] \o <<Eol>>

ScanConfigs ==
    { <<>>,
      <<Config({}, {S_app \o <<"a">> \o S_spctl_rejected}, <<PatQuarantined>>, TRUE,
               FALSE)>> }

\* how many artifacts the inventory of a host holds at most
MaxArtifacts == 2

SeqsUpTo(S, n) == UNION {[1..k -> S] : k \in 0..n}

FailureKinds == {"codesign", "spctl", "quarantine", "rules", "analysis"}
NoFailure == [cat |-> "none", idx |-> 0, kind |-> "none"]

\* the failures injected into artifact i of category cat
\* every collector call of every artifact raises (a failure or a timeout)
AllCollectorsFail == [cat |-> "all", idx |-> 0, kind |-> "collectors"]
FailOf(inj, cat, i) ==
    IF inj = AllCollectorsFail THEN {"codesign", "spctl", "quarantine"}
    ELSE IF inj.cat = cat /\ inj.idx = i THEN {inj.kind} ELSE {}

(***************************************************************************)
(* engine.py: one artifact                                                 *)
(***************************************************************************)
Returned(fs) == [raised |-> FALSE, findings |-> fs]
Raised == [raised |-> TRUE, findings |-> <<>>]

\* a collector call inside its try/except: the result, or None when it raised
Collected(result, raises) == IF raises THEN <<>> ELSE <<result>>

\* variant of _analyze_single_app: a failing rule engine call keeps the finding of the
\* first rule that fired
analyze_single_app_partial(app, cfg, fail) ==
    IF "analysis" \in fail THEN Raised
    ELSE IF app.exec_path = <<>> THEN Returned(<<>>)
    ELSE LET fs == analyze_app(app, Collected(app.codesign, "codesign" \in fail),
                               Collected(app.spctl, "spctl" \in fail),
                               Collected(app.quarantine, "quarantine" \in fail), cfg)
         IN  IF "rules" \in fail THEN Returned(SubSeq(fs, 1, 1)) ELSE Returned(fs)

\* _analyze_single_app; `fail` is the set of calls that raise for this app
analyze_single_app(app, cfg, fail) ==
    IF "analysis" \in fail THEN Raised
    ELSE IF app.exec_path = <<>> THEN Returned(<<>>)
    ELSE LET codesign_result == Collected(app.codesign, "codesign" \in fail)
             spctl_result == Collected(app.spctl, "spctl" \in fail)
             quarantine_result == Collected(app.quarantine, "quarantine" \in fail)
         IN  IF "rules" \in fail THEN Returned(<<>>)
             ELSE Returned(analyze_app(app, codesign_result, spctl_result,
                                       quarantine_result, cfg))

\* _analyze_single_launchd
analyze_single_launchd(item, cfg, fail) ==
    IF "analysis" \in fail THEN Raised
    ELSE IF item.program = <<>> \/ ~item.program_exists
    THEN IF "rules" \in fail THEN Returned(<<>>)
         ELSE Returned(analyze_launchd(item, <<>>, <<>>, <<>>, cfg))
    ELSE LET codesign_result == Collected(item.codesign, "codesign" \in fail)
             spctl_result == Collected(item.spctl, "spctl" \in fail)
             quarantine_result == Collected(item.quarantine, "quarantine" \in fail)
         IN  IF "rules" \in fail THEN Returned(<<>>)
             ELSE Returned(analyze_launchd(item, codesign_result, spctl_result,
                                           quarantine_result, cfg))

analyze_single(cat, a, cfg, fail) ==
    IF cat = "app" THEN analyze_single_app(a, cfg, fail)
    ELSE analyze_single_launchd(a, cfg, fail)

(***************************************************************************)
(* engine.py: run_scan as a state machine                                  *)
(*   pc.at: host -> enum(app) -> seq|par (app) -> enum(launchd) ->         *)
(*          seq|par (launchd) -> assemble -> done,  or host -> fatal       *)
(***************************************************************************)
At(at, cat) == [at |-> at, cat |-> cat]

Inventory(cat) == IF cat = "app" THEN apps_inv ELSE launchd_inv

Idle ==
    /\ b_file = <<>>
    /\ b_findings = <<>>
    /\ b_out = <<>>
    /\ flt = <<>>
    /\ cli = <<>>
    /\ rule = <<>>
    /\ SideIdle

Injections(apps, items) ==
    {NoFailure}
    \cup {[cat |-> "app", idx |-> i, kind |-> k] : i \in 1..Len(apps), k \in FailureKinds}
    \cup {[cat |-> "launchd", idx |-> i, kind |-> k] :
             i \in 1..Len(items), k \in FailureKinds}

Init ==
    /\ apps_inv \in {s \in SeqsUpTo(AppProfiles, MaxArtifacts) : Distinct(s)}
    /\ launchd_inv \in {s \in SeqsUpTo(LaunchdProfiles, MaxArtifacts - Len(apps_inv)) :
                            Distinct(s)}
    /\ kexts_inv \in {s \in SeqsUpTo(KextProfiles,
                                      MaxArtifacts - Len(apps_inv) - Len(launchd_inv)) :
                          Distinct(s)}
    /\ extensions_inv \in {s \in SeqsUpTo(ExtensionProfiles,
                                           MaxArtifacts - Len(apps_inv) - Len(launchd_inv)
                                               - Len(kexts_inv)) :
                               Distinct(s)}
    /\ inject \in Injections(apps_inv, launchd_inv)
    /\ config \in ScanConfigs
    /\ parallel \in BOOLEAN
    /\ pc = At("host", "none")
    /\ enum_failed = {}
    /\ futures = <<>>
    /\ cursor = 0
    /\ findings = <<>>
    /\ all_findings = <<>>
    /\ report = <<>>
    /\ Idle

\* run_scan line 40: get_host_info() returns, or raises RuntimeError out of run_scan
GetHostInfo ==
    /\ pc.at = "host"
    /\ \/ pc' = At("enum", "app")
       \/ pc' = At("fatal", "none")
    /\ UNCHANGED <<apps_inv, launchd_inv, inject, config, parallel, enum_failed, futures,
                   cursor, findings, all_findings, report>>
    /\ UNCHANGED <<kexts_inv, extensions_inv, b_file, b_findings, b_out, flt, cli, rule, side_vars>>

\* variant of CategoryDone: run_scan keeps only the findings of the last category
CategoryDone_overwrite(cat, fs) ==
    /\ all_findings' = fs
    /\ pc' = IF cat = "app" THEN At("enum", "launchd") ELSE At("assemble", "none")
    /\ findings' = <<>>
    /\ futures' = <<>>
    /\ cursor' = 0

\* the category's findings are returned to run_scan, which extends all_findings and
\* goes on to the next category
CategoryDone(cat, fs) ==
    /\ all_findings' = all_findings \o fs
    /\ pc' = IF cat = "app" THEN At("enum", "launchd") ELSE At("assemble", "none")
    /\ findings' = <<>>
    /\ futures' = <<>>
    /\ cursor' = 0

\* _scan_and_analyze_apps / _scan_and_analyze_launchd up to the choice of the mode
ScanAndAnalyze(cat) ==
    /\ pc = At("enum", cat)
    /\ \/ \* the scanner raised: "return findings" (empty)
          /\ enum_failed' = enum_failed \cup {cat}
          /\ CategoryDone(cat, <<>>)
       \/ /\ Inventory(cat) = <<>>
          /\ CategoryDone(cat, <<>>)
          /\ UNCHANGED enum_failed
       \/ /\ Inventory(cat) # <<>>
          /\ parallel
          /\ futures' = [i \in 1..Len(Inventory(cat)) |-> "running"]
          /\ pc' = At("par", cat)
          /\ UNCHANGED <<enum_failed, cursor, findings, all_findings>>
       \/ /\ Inventory(cat) # <<>>
          /\ ~parallel
          /\ cursor' = 1
          /\ pc' = At("seq", cat)
          /\ UNCHANGED <<enum_failed, futures, findings, all_findings>>
    /\ UNCHANGED <<apps_inv, launchd_inv, inject, config, parallel, report>>
    /\ UNCHANGED <<kexts_inv, extensions_inv, b_file, b_findings, b_out, flt, cli, rule, side_vars>>

\* variant of Extended: a raising artifact discards what was collected before it
Extended_discard(fs, r) == IF r.raised THEN <<>> ELSE fs \o r.findings

\* variant of Extended: the list a worker returned is added twice
Extended_twice(fs, r) == IF r.raised THEN fs ELSE fs \o r.findings \o r.findings

\* findings.extend(app_findings) inside try, "except Exception: pass"
Extended(fs, r) == IF r.raised THEN fs ELSE fs \o r.findings

\* variant of AnalyzeSequential: when a call failed for an artifact after the first one,
\* the loop starts the category again
AnalyzeSequential_restart(cat) ==
    /\ pc = At("seq", cat)
    /\ LET r == analyze_single(cat, Inventory(cat)[cursor], config,
                               FailOf(inject, cat, cursor))
           fs == Extended(findings, r)
       IN  IF FailOf(inject, cat, cursor) # {}
           THEN /\ findings' = <<>>
                /\ cursor' = 1
                /\ UNCHANGED <<pc, futures, all_findings>>
           ELSE IF cursor = Len(Inventory(cat))
           THEN CategoryDone(cat, fs)
           ELSE /\ findings' = fs
                /\ cursor' = cursor + 1
                /\ UNCHANGED <<pc, futures, all_findings>>
    /\ UNCHANGED <<apps_inv, launchd_inv, inject, config, parallel, enum_failed, report>>
    /\ UNCHANGED <<kexts_inv, extensions_inv, b_file, b_findings, b_out, flt, cli, rule, side_vars>>

\* one turn of the loop of _analyze_apps_sequential / _analyze_launchd_sequential
AnalyzeSequential(cat) ==
    /\ pc = At("seq", cat)
    /\ LET r == analyze_single(cat, Inventory(cat)[cursor], config,
                               FailOf(inject, cat, cursor))
           fs == Extended(findings, r)
       IN  IF cursor = Len(Inventory(cat))
           THEN CategoryDone(cat, fs)
           ELSE /\ findings' = fs
                /\ cursor' = cursor + 1
                /\ UNCHANGED <<pc, futures, all_findings>>
    /\ UNCHANGED <<apps_inv, launchd_inv, inject, config, parallel, enum_failed, report>>
    /\ UNCHANGED <<kexts_inv, extensions_inv, b_file, b_findings, b_out, flt, cli, rule, side_vars>>

\* max_workers = min(8, len(apps))
MAX_WORKERS == 8
\* a pool with one thread per artifact
max_workers_per_artifact(n) == n
max_workers(n) == IF n < MAX_WORKERS THEN n ELSE MAX_WORKERS

\* a pool thread finishes _analyze_single_app / _analyze_single_launchd for artifact i
WorkerFinish(cat, i) ==
    /\ pc = At("par", cat)
    /\ futures[i] = "running"
    /\ futures' = [futures EXCEPT ![i] = "finished"]
    /\ UNCHANGED <<apps_inv, launchd_inv, inject, config, parallel, pc, enum_failed,
                   cursor, findings, all_findings, report>>
    /\ UNCHANGED <<kexts_inv, extensions_inv, b_file, b_findings, b_out, flt, cli, rule, side_vars>>

\* one turn of "for future in as_completed(...)": future.result() of a finished future
CollectCompleted(cat, i) ==
    /\ pc = At("par", cat)
    /\ futures[i] = "finished"
    /\ LET r == analyze_single(cat, Inventory(cat)[i], config, FailOf(inject, cat, i))
           fs == Extended(findings, r)
           left == {j \in DOMAIN futures : j # i /\ futures[j] # "collected"}
       IN  IF left = {}
           THEN CategoryDone(cat, fs)
           ELSE /\ findings' = fs
                /\ futures' = [futures EXCEPT ![i] = "collected"]
                /\ UNCHANGED <<pc, cursor, all_findings>>
    /\ UNCHANGED <<apps_inv, launchd_inv, inject, config, parallel, enum_failed, report>>
    /\ UNCHANGED <<kexts_inv, extensions_inv, b_file, b_findings, b_out, flt, cli, rule, side_vars>>

\* run_scan lines 53-68: filter, sort, build and return the report
report_findings(fs, cfg) ==
    sorted(IF cfg # <<>> THEN apply_config_filters(fs, cfg[1]) ELSE fs)

AssembleReport ==
    /\ pc.at = "assemble"
    /\ report' = report_findings(all_findings, config)
    /\ pc' = At("done", "none")
    /\ UNCHANGED <<apps_inv, launchd_inv, inject, config, parallel, enum_failed, futures,
                   cursor, findings, all_findings>>
    /\ UNCHANGED <<kexts_inv, extensions_inv, b_file, b_findings, b_out, flt, cli, rule, side_vars>>

Categories == {"app", "launchd"}

Next ==
    \/ GetHostInfo
    \/ \E cat \in Categories : ScanAndAnalyze(cat)
    \/ \E cat \in Categories : AnalyzeSequential(cat)
    \/ \E cat \in Categories : \E i \in DOMAIN futures : WorkerFinish(cat, i)
    \/ \E cat \in Categories : \E i \in DOMAIN futures : CollectCompleted(cat, i)
    \/ AssembleReport

Spec == Init /\ [][Next]_vars

(***************************************************************************)
(* Properties of run_scan                                                  *)
(***************************************************************************)
Range(s) == {s[i] : i \in 1..Len(s)}
BagOfSeq(s) == [x \in Range(s) |-> Cardinality({i \in 1..Len(s) : s[i] = x})]
Done == pc.at = "done"

\* severity rank of the specification: HIGH=0, MED=1, LOW=2, INFO=3
SeverityRank(r) == CASE r = "HIGH" -> 0 [] r = "MED" -> 1 [] r = "LOW" -> 2 [] r = "INFO" -> 3

\* C1 (as claimed): in every returned report the findings are ordered most severe
\* first: f1 before f2 implies rank(f1) <= rank(f2), and title(f1) <= title(f2)
\* lexically when the ranks are equal.
C1_MostSevereFirst ==
    Done =>
        \A i, j \in 1..Len(report) :
            i < j =>
                /\ SeverityRank(report[i].risk) <= SeverityRank(report[j].risk)
                /\ (report[i].risk = report[j].risk
                        => StrLe(report[i].title, report[j].title))

\* the list a sequential run builds for the first n artifacts of a category
RECURSIVE SequentialFindings(_, _)
SequentialFindings(cat, n) ==
    IF n = 0 THEN <<>>
    ELSE Extended(SequentialFindings(cat, n - 1),
                  analyze_single(cat, Inventory(cat)[n], config, FailOf(inject, cat, n)))

SequentialCategory(cat) ==
    IF cat \in enum_failed THEN <<>> ELSE SequentialFindings(cat, Len(Inventory(cat)))

\* what run_scan(config, parallel=False) returns for this inventory, these collector
\* results and this config
SequentialReport ==
    report_findings(SequentialCategory("app") \o SequentialCategory("launchd"), config)

NoFailureFindings(cat, a) == analyze_single(cat, a, config, {}).findings

\* the findings of artifact a when the call `kind` raises for it: a raising collector
\* leaves its one signal absent, the other collectors and the rules still run
Absent(result, kind, collector) == IF kind = collector THEN <<>> ELSE <<result>>

DegradedFindings(cat, a, kind) ==
    IF kind \in {"analysis", "rules"} THEN <<>>
    ELSE IF cat = "app"
    THEN IF a.exec_path = <<>> THEN <<>>
         ELSE analyze_app(a, Absent(a.codesign, kind, "codesign"),
                          Absent(a.spctl, kind, "spctl"),
                          Absent(a.quarantine, kind, "quarantine"), config)
    ELSE IF a.program = <<>> \/ ~a.program_exists
         THEN analyze_launchd(a, <<>>, <<>>, <<>>, config)
         ELSE analyze_launchd(a, Absent(a.codesign, kind, "codesign"),
                              Absent(a.spctl, kind, "spctl"),
                              Absent(a.quarantine, kind, "quarantine"), config)

ExpectedOf(cat, i) ==
    IF inject.cat = cat /\ inject.idx = i
    THEN DegradedFindings(cat, Inventory(cat)[i], inject.kind)
    ELSE NoFailureFindings(cat, Inventory(cat)[i])

RECURSIVE ExpectedUpTo(_, _)
ExpectedUpTo(cat, n) ==
    IF n = 0 THEN <<>> ELSE ExpectedUpTo(cat, n - 1) \o ExpectedOf(cat, n)

ExpectedCategory(cat) ==
    IF cat \in enum_failed THEN <<>> ELSE ExpectedUpTo(cat, Len(Inventory(cat)))

Filtered(fs) == IF config # <<>> THEN apply_config_filters(fs, config[1]) ELSE fs

\* C3: when a collector call or the whole analysis raises for one artifact, the report
\* holds for every other artifact exactly its no-failure findings, and for the failing
\* artifact the findings of the rules with only the raised signal absent, in sequential
\* and in parallel mode.
C3_FailureContained ==
    Done =>
        BagOfSeq(report)
            = BagOfSeq(Filtered(ExpectedCategory("app") \o ExpectedCategory("launchd")))

\* a parallel scan of two artifacts in which a collector raised for one and both
\* artifacts have findings in the report
C3_Witness ==
    /\ Done
    /\ parallel
    /\ inject.kind \in {"codesign", "spctl", "quarantine"}
    /\ Len(apps_inv) = 2
    /\ enum_failed = {}
    /\ NoFailureFindings("app", apps_inv[inject.idx])
           # ExpectedOf("app", inject.idx)
    /\ \A i \in 1..2 : \E k \in 1..Len(report) : report[k] \in Range(ExpectedOf("app", i))

CategoryName(cat) == IF cat = "app" THEN "app" ELSE "persistence"
OfCategory(fs, cat) == SelectSeq(fs, LAMBDA f : f.category = CategoryName(cat))

C10_WitnessAllFailed == Done /\ enum_failed = Categories /\ report = <<>>

(***************************************************************************)
(* baseline.py                                                             *)
(* A JSON value that Baseline.findings can hold is a record                *)
(*   type:    "dict" | "list" | "number" | "null"                          *)
(*   entries: the items of a dict, one per key (of a list: its strings)    *)
(*   zero:    a number is 0                                                *)
(* and an item is a record with the key `id` and the value: kind "object"  *)
(* with the fields save() writes, or kind "string"/"item" for a value that *)
(* is not a JSON object.  The risk of a record is the string Risk.value,   *)
(* which is also how the model writes a Finding's risk.                    *)
(***************************************************************************)
JsonValue(type, entries, zero) == [type |-> type, entries |-> entries, zero |-> zero]
Dict(entries) == JsonValue("dict", entries, FALSE)
EmptyDict == Dict({})

\* the value save() stores under finding.id (the timestamp is left out: nothing reads it)
BaselineRecord(finding) ==
    [ id |-> finding.id, kind |-> "object", risk |-> finding.risk,
      title |-> finding.title, path |-> finding.path, category |-> finding.category ]

\* a value under key id that is not a JSON object, e.g. "app:a:codesign_fail": "HIGH"
StringRecord(id) ==
    [id |-> id, kind |-> "string", risk |-> "", title |-> <<>>, path |-> <<>>, category |-> ""]

\* the string id as an element of a JSON list
ListItem(id) ==
    [id |-> id, kind |-> "item", risk |-> "", title |-> <<>>, path |-> <<>>, category |-> ""]

Keys(value) == {e.id : e \in value.entries}
Lookup(value, id) == CHOOSE e \in value.entries : e.id = id

\* the dict comprehension of save(): { finding.id: {...} for finding in report.findings };
\* a later finding with the same id replaces the earlier one
RECURSIVE snapshot_entries(_)
snapshot_entries(fs) ==
    IF fs = <<>> THEN {}
    ELSE LET f == fs[Len(fs)]
             earlier == snapshot_entries(SubSeq(fs, 1, Len(fs) - 1))
         IN  {e \in earlier : e.id # f.id} \cup {BaselineRecord(f)}

\* the snapshot file: kind "missing" | "unreadable" | "invalid_json" | "json"; for
\* kind "json", top is the type of the top-level value and, for an object, has_key
\* says whether it has the key 'findings' and findings is the value under it
File(kind, top, has_key, value) ==
    [kind |-> kind, top |-> top, has_key |-> has_key, findings |-> value]

MissingFile == File("missing", "none", FALSE, EmptyDict)
UnreadableFile == File("unreadable", "none", FALSE, EmptyDict)
InvalidJsonFile == File("invalid_json", "none", FALSE, EmptyDict)
JsonArrayFile == File("json", "array", FALSE, EmptyDict)
ObjectFile(has_key, value) == File("json", "object", has_key, value)

\* Baseline.load on an object whose findings are self_findings: the return value and
\* the object's findings afterwards.  Every exception inside the try returns False
\* and leaves self.findings as it was: open() on an unreadable file, json.load on
\* invalid JSON, data.get on a top-level value that is not an object.
load(file, self_findings) ==
    IF file.kind = "missing" THEN [ret |-> FALSE, findings |-> self_findings]
    ELSE IF file.kind \in {"unreadable", "invalid_json"}
    THEN [ret |-> FALSE, findings |-> self_findings]
    ELSE IF file.top # "object" THEN [ret |-> FALSE, findings |-> self_findings]
    ELSE [ret |-> TRUE, findings |-> IF file.has_key THEN file.findings ELSE EmptyDict]

\* Python's "not self.findings"
Falsy(value) ==
    CASE value.type = "null" -> TRUE
      [] value.type = "number" -> value.zero
      [] OTHER -> value.entries = {}

\* variant of check_finding: only the id is looked up, the severity is not compared
check_finding_id_only(self_findings, finding) ==
    IF finding.id \notin Keys(self_findings) THEN "new" ELSE "known"

\* one turn of the loop of filter_new_findings: "new" (appended), "known" (skipped) or
\* "raise".  `in` on a number raises TypeError, indexing a list with a string raises
\* TypeError, .get on a value that is not a dict raises AttributeError.
check_finding(self_findings, finding) ==
    CASE self_findings.type \in {"number", "null"} -> "raise"
      [] self_findings.type = "list" ->
            IF finding.id \notin Keys(self_findings) THEN "new" ELSE "raise"
      [] self_findings.type = "dict" ->
            IF finding.id \notin Keys(self_findings) THEN "new"
            ELSE LET baseline_finding == Lookup(self_findings, finding.id)
                 IN  IF baseline_finding.kind # "object" THEN "raise"
                     ELSE IF baseline_finding.risk # finding.risk THEN "new"
                     ELSE "known"

RECURSIVE filter_loop(_, _)
filter_loop(self_findings, fs) ==
    IF fs = <<>> THEN Returned(<<>>)
    ELSE LET verdict == check_finding(self_findings, Head(fs))
             rest == filter_loop(self_findings, Tail(fs))
         IN  IF verdict = "raise" \/ rest.raised THEN Raised
             ELSE Returned((IF verdict = "new" THEN <<Head(fs)>> ELSE <<>>)
                               \o rest.findings)

\* Baseline.filter_new_findings
filter_new_findings(self_findings, fs) ==
    IF Falsy(self_findings) THEN Returned(fs) ELSE filter_loop(self_findings, fs)

(***************************************************************************)
(* The baseline as its callers drive it: a snapshot file, one Baseline     *)
(* object, and the calls load, save and filter_new_findings with reports   *)
(* that scans of small hosts return.  b_out keeps the last three calls.    *)
(***************************************************************************)
RECURSIVE AnalyzeAll(_, _, _)
AnalyzeAll(cat, inventory, cfg) ==
    IF inventory = <<>> THEN <<>>
    ELSE AnalyzeAll(cat, SubSeq(inventory, 1, Len(inventory) - 1), cfg)
             \o analyze_single(cat, inventory[Len(inventory)], cfg, {}).findings

\* the findings of the report run_scan returns for a host where nothing fails
ScanOf(apps, items, cfg) ==
    report_findings(AnalyzeAll("app", apps, cfg) \o AnalyzeAll("launchd", items, cfg), cfg)

AppAt(app_path) == CHOOSE a \in AppProfiles : a.app_path = app_path

\* bundle a after an update: other name and path, now signed by a known vendor but
\* with a broken signature, still rejected by Gatekeeper
AppUpdated ==
    AppRecord(<<"/", "8">>, <<"C">>, <<"a">>, TRUE, CodesignResult("fail", "UBF8T346G9"),
              SpctlResult("rejected"), NotQuarantined, FALSE)

\* the reports of: a host without findings; a host with bundle a; the same host after
\* bundle a was updated and bundle b installed; a host with two copies of bundle a
ReportEmpty == ScanOf(<<>>, <<>>, <<>>)
ReportBefore == ScanOf(<<AppAt(<<"/", "1">>)>>, <<>>, <<>>)
ReportAfter == ScanOf(<<AppUpdated, AppAt(<<"/", "2">>)>>, <<>>, <<>>)
ReportCopies == ScanOf(<<AppAt(<<"/", "1">>), AppAt(<<"/", "3">>)>>, <<>>, <<>>)
Reports == {ReportEmpty, ReportBefore, ReportAfter, ReportCopies}

IdCodesignA == S_app \o <<"a">> \o S_codesign_fail

\* the snapshot files a run can find: none, unreadable, not JSON, a JSON array, an
\* object without 'findings', and objects whose 'findings' is null, a number, a list
\* of ids, or a dict whose value for an id is a string
InitialFiles ==
    { MissingFile, UnreadableFile, InvalidJsonFile, JsonArrayFile,
      ObjectFile(FALSE, EmptyDict),
      ObjectFile(TRUE, JsonValue("null", {}, FALSE)),
      ObjectFile(TRUE, JsonValue("number", {}, FALSE)),
      ObjectFile(TRUE, JsonValue("list", {ListItem(IdCodesignA)}, FALSE)),
      ObjectFile(TRUE, Dict({StringRecord(IdCodesignA)})) }

Call(op, arg, ret, ok) == [op |-> op, arg |-> arg, ret |-> ret, ok |-> ok]
NoCall == Call("none", <<>>, <<>>, TRUE)
Logged(call) == [prev2 |-> b_out.prev1, prev1 |-> b_out.last, last |-> call]

ScanIdle ==
    /\ apps_inv = <<>>
    /\ launchd_inv = <<>>
    /\ kexts_inv = <<>>
    /\ extensions_inv = <<>>
    /\ inject = NoFailure
    /\ config = <<>>
    /\ parallel = FALSE
    /\ pc = At("idle", "none")
    /\ enum_failed = {}
    /\ futures = <<>>
    /\ cursor = 0
    /\ findings = <<>>
    /\ all_findings = <<>>
    /\ report = <<>>

\* Baseline.__init__: findings = {}
BaselineInit ==
    /\ ScanIdle
    /\ flt = <<>>
    /\ cli = <<>>
    /\ rule = <<>>
    /\ SideIdle
    /\ b_file \in InitialFiles
    /\ b_findings = EmptyDict
    /\ b_out = [prev2 |-> NoCall, prev1 |-> NoCall, last |-> NoCall]

\* baseline = Baseline(path); baseline.load()
FreshLoad ==
    /\ LET r == load(b_file, EmptyDict)
       IN  /\ b_findings' = r.findings
           /\ b_out' = Logged(Call("load", <<>>, <<>>, r.ret))
    /\ UNCHANGED <<b_file, scan_vars, flt, cli, rule, side_vars>>

\* baseline.load() on the object as it is
Reload ==
    /\ LET r == load(b_file, b_findings)
       IN  /\ b_findings' = r.findings
           /\ b_out' = Logged(Call("reload", <<>>, <<>>, r.ret))
    /\ UNCHANGED <<b_file, scan_vars, flt, cli, rule, side_vars>>

\* variant of Save: the new records are merged into what the object held
Save_merge(fs) ==
    /\ LET merged == Dict({e \in b_findings.entries :
                              e.id \notin {n.id : n \in snapshot_entries(fs)}}
                          \cup snapshot_entries(fs))
       IN  /\ b_file' = ObjectFile(TRUE, merged)
           /\ b_findings' = merged
    /\ b_out' = Logged(Call("save", fs, <<>>, TRUE))
    /\ UNCHANGED <<scan_vars, flt, cli, rule, side_vars>>

\* baseline.save(report): the file is rewritten ('w') with the new document, then
\* self.findings = baseline_data['findings']
Save(fs) ==
    /\ b_file' = ObjectFile(TRUE, Dict(snapshot_entries(fs)))
    /\ b_findings' = Dict(snapshot_entries(fs))
    /\ b_out' = Logged(Call("save", fs, <<>>, TRUE))
    /\ UNCHANGED <<scan_vars, flt, cli, rule, side_vars>>

\* baseline.filter_new_findings(fs): the returned list, or an exception
FilterNewFindings(fs) ==
    /\ LET r == filter_new_findings(b_findings, fs)
       IN  b_out' = Logged(Call("filter", fs, r.findings, ~r.raised))
    /\ UNCHANGED <<b_file, b_findings, scan_vars, flt, cli, rule, side_vars>>

BaselineNext ==
    \/ FreshLoad
    \/ Reload
    \/ \E fs \in Reports : Save(fs)
    \/ \E fs \in Reports : FilterNewFindings(fs)

BaselineSpec == BaselineInit /\ [][BaselineNext]_vars

(***************************************************************************)
(* Properties of the baseline                                              *)
(***************************************************************************)
Ids(fs) == {fs[i].id : i \in 1..Len(fs)}

\* a snapshot of the documented form: a dict from ids to records
IsMapping(value) == value.type = "dict" /\ \A e \in value.entries : e.kind = "object"

\* C4: filter_new_findings returns, in input order, exactly the findings whose id is
\* absent from the snapshot or recorded there with another severity; title, path and
\* category play no part; against an empty snapshot every finding is returned.
C4_FilterByIdAndSeverity ==
    LET call == b_out.last
    IN  (call.op = "filter" /\ IsMapping(b_findings)) =>
            /\ call.ok
            /\ call.ret = SelectSeq(call.arg,
                              LAMBDA f : ~\E e \in b_findings.entries :
                                              e.id = f.id /\ e.risk = f.risk)

\* a diff that returns a finding with a new id and one with a changed severity, and
\* drops one whose id and severity are recorded with another title and path
C4_Witness ==
    LET call == b_out.last
    IN  /\ call.op = "filter"
        /\ IsMapping(b_findings)
        /\ \E i \in 1..Len(call.ret) : call.ret[i].id \notin Keys(b_findings)
        /\ \E i \in 1..Len(call.ret) :
               /\ call.ret[i].id \in Keys(b_findings)
               /\ Lookup(b_findings, call.ret[i].id).risk # call.ret[i].risk
        /\ \E i \in 1..Len(call.arg) :
               /\ call.arg[i] \notin Range(call.ret)
               /\ call.arg[i].id \in Keys(b_findings)
               /\ Lookup(b_findings, call.arg[i].id).title # call.arg[i].title
               /\ Lookup(b_findings, call.arg[i].id).path # call.arg[i].path

\* the snapshot was saved from a report without findings and the diff returns all
C4_WitnessEmptySnapshot ==
    /\ b_out.prev1.op = "save" /\ b_out.prev1.arg = <<>>
    /\ b_out.last.op = "filter" /\ b_out.last.arg # <<>>
    /\ b_out.last.ret = b_out.last.arg

\* C5 (as claimed): after save(report of F), load of the saved snapshot into a fresh
\* Baseline and filter_new_findings(F), the result is empty, for every F a scan returns.
C5_RoundTripEmpty ==
    ( /\ b_out.prev2.op = "save"
      /\ b_out.prev1.op = "load"
      /\ b_out.last.op = "filter"
      /\ b_out.last.arg = b_out.prev2.arg )
        => (b_out.last.ok /\ b_out.last.ret = <<>>)

\* the snapshot file is unreadable, not JSON, not a JSON object, or its 'findings' is
\* not a mapping from ids to records
Malformed(file) ==
    \/ file.kind \in {"unreadable", "invalid_json"}
    \/ file.kind = "json" /\ file.top # "object"
    \/ file.kind = "json" /\ file.top = "object" /\ file.has_key
           /\ ~IsMapping(file.findings)

\* C6 (as claimed): a malformed snapshot behaves like a missing one: load reports
\* that no baseline exists, and the diff that follows raises nothing and returns
\* every finding.
C6_MalformedLikeMissing ==
    /\ (b_out.last.op = "load" /\ Malformed(b_file)) => ~b_out.last.ok
    /\ (b_out.prev1.op = "load" /\ b_out.last.op = "filter" /\ Malformed(b_file))
           => (b_out.last.ok /\ b_out.last.ret = b_out.last.arg)

Chars(s) == [i \in 1..Len(s) |-> Lit(s[i])]

\* "quarantined"
PatWord == Chars(SubSeq(S_quarantined, 2, Len(S_quarantined)))
\* "^persistence:user:.*"
PatUserPersistence ==
    <<Bol>> \o Chars(S_persistence \o <<"u", "s", "e", "r", ":">>) \o <<DotStar>>
\* "app:a"
PatAppA == Chars(S_app \o <<"a">>)
\* "spctl_rejected$"
PatRejectedEnd == Chars(SubSeq(S_spctl_rejected, 2, Len(S_spctl_rejected))) \o <<Eol>>

FilterPatterns == {PatQuarantined, PatWord, PatUserPersistence, PatAppA, PatRejectedEnd}

\* how many ignore_patterns a configuration of the filter driver lists at most
MaxPatterns == 2

FilterConfigs ==
    { Config({}, ids, pats, FALSE, FALSE) :
        ids \in SUBSET {IdCodesignA, S_app \o <<"b">> \o S_quarantined},
        pats \in SeqsUpTo(FilterPatterns, MaxPatterns) }

\* the report of a host with bundle b, a daemon and a user agent
ReportPersistence == ScanOf(<<AppAt(<<"/", "2">>)>>,
                            <<CHOOSE i \in LaunchdProfiles : i.plist_path = <<"/", "6">>,
                              CHOOSE i \in LaunchdProfiles : i.plist_path = <<"/", "7">> >>,
                            <<>>)

FilterInputs == {ReportBefore, ReportAfter, ReportCopies, ReportPersistence}

FilterInit ==
    /\ ScanIdle
    /\ b_file = <<>>
    /\ b_findings = <<>>
    /\ b_out = <<>>
    /\ cli = <<>>
    /\ rule = <<>>
    /\ SideIdle
    /\ flt \in { [findings |-> fs, config |-> cfg, called |-> FALSE, out |-> <<>>] :
                    fs \in FilterInputs, cfg \in FilterConfigs }

\* filtered = _apply_config_filters(findings, config)
ApplyConfigFilters ==
    /\ ~flt.called
    /\ flt' = [flt EXCEPT !.called = TRUE,
                          !.out = apply_config_filters(flt.findings, flt.config)]
    /\ UNCHANGED <<scan_vars, b_file, b_findings, b_out, cli, rule, side_vars>>

FilterNext == ApplyConfigFilters

FilterSpec == FilterInit /\ [][FilterNext]_vars

\* C8 (as claimed): a finding is dropped iff its id is in ignore_findings or some
\* ignore_patterns entry matches the id anywhere in it; the others are kept in order.
C8_DropsIffMatchesAnywhere ==
    flt.called =>
        flt.out = SelectSeq(flt.findings,
                      LAMBDA f : ~( \/ f.id \in flt.config.ignore_findings
                                    \/ \E k \in 1..Len(flt.config.ignore_patterns) :
                                           re_search(flt.config.ignore_patterns[k], f.id) ))

\* C8 (amended): a finding is dropped iff its id is in ignore_findings or some
\* ignore_patterns entry matches the id from its first character on (re.match); a
\* pattern that matches only further inside the id does not count.  The other
\* findings are kept in their order.
C8_DropsIffMatchesAtStart ==
    flt.called =>
        flt.out = SelectSeq(flt.findings,
                      LAMBDA f : ~( \/ f.id \in flt.config.ignore_findings
                                    \/ \E k \in 1..Len(flt.config.ignore_patterns) :
                                           match_here(flt.config.ignore_patterns[k], 1,
                                                      f.id, 1) ))

\* one call drops a finding for its explicit id, drops another for a pattern, and
\* keeps a finding whose id a pattern matches only further inside
C8_Witness ==
    /\ flt.called
    /\ \E i \in 1..Len(flt.findings) :
           /\ flt.findings[i].id \in flt.config.ignore_findings
           /\ flt.findings[i] \notin Range(flt.out)
    /\ \E i \in 1..Len(flt.findings) :
           /\ flt.findings[i].id \notin flt.config.ignore_findings
           /\ flt.findings[i] \notin Range(flt.out)
    /\ \E i \in 1..Len(flt.findings) :
           /\ flt.findings[i] \in Range(flt.out)
           /\ \E k \in 1..Len(flt.config.ignore_patterns) :
                  re_search(flt.config.ignore_patterns[k], flt.findings[i].id)

(***************************************************************************)
(* cli.py: one run of the command, from loading the configuration to exit  *)
(*   cli.at: config -> baseline -> scan -> save -> diff -> render -> exit  *)
(***************************************************************************)
\* "[" : re.compile raises re.error
PatInvalid == <<LBracket>>

\* the configuration file of the run: none (<<>>), or the settings it holds
ConfigFiles ==
    { <<>>,
      <<Config({}, {}, <<PatQuarantined>>, FALSE, FALSE)>>,
      <<Config({}, {IdCodesignA}, <<PatInvalid>>, FALSE, FALSE)>> }

\* load_config: Config() when there is no file; Config(**data) otherwise, whose
\* __post_init__ error is re-raised as ValueError
load_config(config_file) ==
    IF config_file = <<>> THEN [raised |-> FALSE, config |-> DefaultConfig]
    ELSE IF post_init_raises(config_file[1]) THEN [raised |-> TRUE, config |-> DefaultConfig]
    ELSE [raised |-> FALSE, config |-> config_file[1]]

\* the application inventories of the hosts the command runs on
CliHosts ==
    { <<>>,
      <<AppAt(<<"/", "1">>)>>,
      <<AppUpdated, AppAt(<<"/", "2">>)>>,
      <<AppAt(<<"/", "1">>), AppAt(<<"/", "3">>)>> }

\* the snapshot files the command can find: those of InitialFiles and the snapshot an
\* earlier run saved on the host with bundle a
CliFiles == InitialFiles \cup {ObjectFile(TRUE, Dict(snapshot_entries(ReportBefore)))}

Options == [diff_mode : BOOLEAN, show_all : BOOLEAN, save_baseline : BOOLEAN,
            json : BOOLEAN, verbose : BOOLEAN]

CliInit ==
    /\ ScanIdle
    /\ flt = <<>>
    /\ rule = <<>>
    /\ SideIdle
    /\ b_out = <<>>
    /\ b_file \in CliFiles
    /\ b_findings = EmptyDict
    /\ \E config_file \in ConfigFiles, opts \in Options, host \in CliHosts :
          cli = [ at |-> "config", config_file |-> config_file, opts |-> opts,
                  host |-> host, config_error |-> FALSE, config |-> DefaultConfig,
                  baseline_exists |-> FALSE, use_diff_mode |-> FALSE,
                  loaded |-> EmptyDict,
                  scan_started |-> FALSE, scan_config |-> DefaultConfig,
                  report |-> <<>>, saved |-> FALSE, filtered_findings |-> <<>>,
                  exit_code |-> <<>> ]

\* sys.exit(code); code 1 is an exception nobody caught
Exit(code) == [cli EXCEPT !.at = "exit", !.exit_code = <<code>>]

\* variant of LoadConfig: after the error the run goes on with the requested settings
LoadConfig_keep_requested ==
    /\ cli.at = "config"
    /\ LET r == load_config(cli.config_file)
       IN  cli' = [cli EXCEPT !.at = "baseline",
                              !.config_error = r.raised,
                              !.config = IF r.raised THEN cli.config_file[1] ELSE r.config]
    /\ UNCHANGED <<scan_vars, b_file, b_findings, b_out, flt, rule, side_vars>>

\* try: config = load_config(config_file)
\* except Exception: print the error, "Continuing with default settings...", Config()
LoadConfig ==
    /\ cli.at = "config"
    /\ LET r == load_config(cli.config_file)
       IN  cli' = [cli EXCEPT !.at = "baseline",
                              !.config_error = r.raised,
                              !.config = IF r.raised THEN DefaultConfig ELSE r.config]
    /\ UNCHANGED <<scan_vars, b_file, b_findings, b_out, flt, rule, side_vars>>

\* baseline = Baseline(baseline_path); baseline_exists = baseline.load();
\* use_diff_mode = (diff_mode or baseline_exists) and not show_all
InitBaseline ==
    /\ cli.at = "baseline"
    /\ LET r == load(b_file, EmptyDict)
       IN  /\ b_findings' = r.findings
           /\ cli' = [cli EXCEPT !.at = "scan",
                                 !.loaded = r.findings,
                                 !.baseline_exists = r.ret,
                                 !.use_diff_mode =
                                     (cli.opts.diff_mode \/ r.ret) /\ ~cli.opts.show_all]
    /\ UNCHANGED <<scan_vars, b_file, b_out, flt, rule, side_vars>>

\* report = run_scan(config, parallel=fast), or "Scan failed" and exit 3
RunScan ==
    /\ cli.at = "scan"
    /\ \/ cli' = [cli EXCEPT !.at = "save", !.scan_started = TRUE,
                             !.scan_config = cli.config,
                             !.report = ScanOf(cli.host, <<>>, <<cli.config>>)]
       \/ cli' = [Exit(3) EXCEPT !.scan_started = TRUE, !.scan_config = cli.config]
    /\ UNCHANGED <<scan_vars, b_file, b_findings, b_out, flt, rule, side_vars>>

\* if save_baseline: baseline.save(report), exit 0 unless --json; exit 3 when save raises
SaveBaseline ==
    /\ cli.at = "save"
    /\ \/ /\ ~cli.opts.save_baseline
          /\ cli' = [cli EXCEPT !.at = "diff"]
          /\ UNCHANGED <<b_file, b_findings>>
       \/ /\ cli.opts.save_baseline
          /\ b_file' = ObjectFile(TRUE, Dict(snapshot_entries(cli.report)))
          /\ b_findings' = Dict(snapshot_entries(cli.report))
          /\ cli' = IF cli.opts.json THEN [cli EXCEPT !.at = "diff", !.saved = TRUE]
                    ELSE [Exit(0) EXCEPT !.saved = TRUE]
       \/ /\ cli.opts.save_baseline
          /\ cli' = Exit(3)
          /\ UNCHANGED <<b_file, b_findings>>
    /\ UNCHANGED <<scan_vars, b_out, flt, rule, side_vars>>

\* min_risk_level: Risk[config.min_risk] unless --verbose
min_risk_filter(fs, opts, cfg) ==
    IF opts.verbose THEN fs
    ELSE SelectSeq(fs, LAMBDA f : Risk__ge__(f.risk, cfg.min_risk))

\* the diff against the baseline (outside any try) and the minimum risk filter
DiffAndFilter ==
    /\ cli.at = "diff"
    /\ LET r == IF cli.use_diff_mode /\ cli.baseline_exists
                THEN filter_new_findings(b_findings, cli.report)
                ELSE Returned(cli.report)
       IN  cli' = IF r.raised THEN Exit(1)
                  ELSE [cli EXCEPT !.at = "render",
                                   !.filtered_findings =
                                       min_risk_filter(r.findings, cli.opts, cli.config)]
    /\ UNCHANGED <<scan_vars, b_file, b_findings, b_out, flt, rule, side_vars>>

\* render_json / render_human: the output and exit 0, or "Rendering failed" and exit 3
Render ==
    /\ cli.at = "render"
    /\ \/ cli' = Exit(0)
       \/ cli' = Exit(3)
    /\ UNCHANGED <<scan_vars, b_file, b_findings, b_out, flt, rule, side_vars>>

CliNext ==
    \/ LoadConfig
    \/ InitBaseline
    \/ RunScan
    \/ SaveBaseline
    \/ DiffAndFilter
    \/ Render

CliSpec == CliInit /\ [][CliNext]_vars

\* C9 (as claimed): a configuration with an invalid suppression pattern fails at
\* construction, and the error is not swallowed: no scan starts after the requested
\* configuration failed validation.
C9_NoScanAfterInvalidConfig ==
    /\ (cli.at # "config" /\ cli.config_file # <<>>
            /\ \E k \in 1..Len(cli.config_file[1].ignore_patterns) :
                   ~re_compile_ok(cli.config_file[1].ignore_patterns[k]))
           => cli.config_error
    /\ cli.config_error => ~cli.scan_started

\* C9 (amended): a configuration with an invalid suppression pattern fails at
\* construction and run_scan never runs with it; but the command line swallows the
\* error: it prints it and runs the scan with the default configuration.
C9_InvalidConfigReplacedByDefault ==
    /\ (cli.at # "config" /\ cli.config_file # <<>>
            /\ \E k \in 1..Len(cli.config_file[1].ignore_patterns) :
                   ~re_compile_ok(cli.config_file[1].ignore_patterns[k]))
           => cli.config_error
    /\ cli.scan_started =>
           \A k \in 1..Len(cli.scan_config.ignore_patterns) :
               re_compile_ok(cli.scan_config.ignore_patterns[k])
    /\ (cli.config_error /\ cli.scan_started) => cli.scan_config = DefaultConfig

\* the configuration failed validation and the command printed a report all the same
C9_Witness ==
    /\ cli.config_error
    /\ cli.scan_started
    /\ cli.exit_code = <<0>>
    /\ cli.filtered_findings # <<>>

(***************************************************************************)
(* rules.py: kernel extensions and browser extensions                      *)
(***************************************************************************)
S_kext ==
    <<"k", "e", "x", "t", ":">>
S_unsigned ==
    <<":", "u", "n", "s", "i", "g", "n", "e", "d">>
S_invalid_signature ==
    <<":", "i", "n", "v", "a", "l", "i", "d", "_", "s", "i", "g", "n", "a", "t", "u",
      "r", "e">>
T_unsigned_kext ==
    <<"U", "n", "s", "i", "g", "n", "e", "d", " ", "K", "e", "r", "n", "e", "l", " ",
      "E", "x", "t", "e", "n", "s", "i", "o", "n", ":", " ">>
T_unsigned_sysext ==
    <<"U", "n", "s", "i", "g", "n", "e", "d", " ", "S", "y", "s", "t", "e", "m", " ",
      "E", "x", "t", "e", "n", "s", "i", "o", "n", ":", " ">>
T_invalid_kext ==
    <<"I", "n", "v", "a", "l", "i", "d", " ", "s", "i", "g", "n", "a", "t", "u", "r",
      "e", ":", " ">>
S_browser_ext ==
    <<"b", "r", "o", "w", "s", "e", "r", "_", "e", "x", "t", ":">>
S_high_risk_permissions ==
    <<":", "h", "i", "g", "h", "_", "r", "i", "s", "k", "_", "p", "e", "r", "m", "i",
      "s", "s", "i", "o", "n", "s">>
S_broad_access ==
    <<":", "b", "r", "o", "a", "d", "_", "a", "c", "c", "e", "s", "s">>
S_suspicious_permissions ==
    <<":", "s", "u", "s", "p", "i", "c", "i", "o", "u", "s", "_", "p", "e", "r", "m",
      "i", "s", "s", "i", "o", "n", "s">>
S_info ==
    <<":", "i", "n", "f", "o">>
T_high_risk ==
    <<"H", "i", "g", "h", "-", "r", "i", "s", "k", " ">>
T_broad_access ==
    <<"B", "r", "o", "a", "d", " ", "a", "c", "c", "e", "s", "s", " ">>
T_suspicious ==
    <<"S", "u", "s", "p", "i", "c", "i", "o", "u", "s", " ">>
T_extension ==
    <<" ", "e", "x", "t", "e", "n", "s", "i", "o", "n", ":", " ">>

\* Finding(...) is a pydantic model with evidence: dict[str, str]; a value that is not
\* a str is a validation error raised out of the constructor.  `evidence` is the set
\* of the types of the values handed in.
validated(finding, evidence) ==
    IF evidence \subseteq {"str"} THEN Returned(<<finding>>) ELSE Raised

\* the type of kext.get("loaded", False): scan_kexts stores a bool
TypeOfLoaded(kext) == "bool"

create_unsigned_kext_finding(kext, finding_id_base) ==
    validated(Finding(finding_id_base \o S_unsigned, "kext", "HIGH",
                      (IF kext.type = "systemextension" THEN T_unsigned_sysext
                       ELSE T_unsigned_kext) \o kext.name,
                      kext.path),
              {"str", TypeOfLoaded(kext)})

create_invalid_kext_finding(kext, finding_id_base) ==
    validated(Finding(finding_id_base \o S_invalid_signature, "kext", "HIGH",
                      T_invalid_kext \o kext.name, kext.path),
              {"str", TypeOfLoaded(kext)})

\* analyze_kext: the call returns its findings or raises what a finding constructor raised
analyze_kext(kext, cfg) ==
    LET name == kext.name
        bundle_id == IF kext.bundle_id # <<>> THEN kext.bundle_id[1] ELSE name
        codesign_status == IF kext.codesign # <<>> THEN kext.codesign[1].status
                           ELSE "unknown"
        finding_id_base == S_kext \o bundle_id
    IN  IF kext.location = "system" THEN Returned(<<>>)
        ELSE IF codesign_status = "unsigned"
        THEN create_unsigned_kext_finding(kext, finding_id_base)
        ELSE IF codesign_status = "invalid"
        THEN create_invalid_kext_finding(kext, finding_id_base)
        ELSE Returned(<<>>)

SUSPICIOUS_PERMISSIONS ==
    {"tabs", "history", "cookies", "webRequest", "webRequestBlocking", "proxy",
     "debugger", "management", "nativeMessaging", "privacy", "clipboardRead",
     "clipboardWrite", "downloads", "geolocation", "notifications"}

HIGH_RISK_PERMISSIONS ==
    {"webRequestBlocking", "debugger", "proxy", "management", "nativeMessaging",
     "privacy"}

\* a selection that leaves the high-risk permissions out of the suspicious ones
identify_suspicious_not_high_risk(permissions) ==
    SelectSeq(permissions, LAMBDA perm : perm \in SUSPICIOUS_PERMISSIONS \ HIGH_RISK_PERMISSIONS)

\* _identify_suspicious_extension_permissions: one entry per listed permission
identify_suspicious_extension_permissions(permissions) ==
    SelectSeq(permissions, LAMBDA perm : perm \in SUSPICIOUS_PERMISSIONS)

identify_high_risk_extension_permissions(permissions) ==
    SelectSeq(permissions, LAMBDA perm : perm \in HIGH_RISK_PERMISSIONS)

\* str.count of a one-character string
Count(s, c) == Cardinality({i \in 1..Len(s) : s[i] = c})

broad_patterns ==
    { <<"<", "a", "l", "l", "_", "u", "r", "l", "s", ">">>,
      <<"*", ":", "/", "/", "*", "/", "*">>,
      <<"h", "t", "t", "p", ":", "/", "/", "*", "/", "*">>,
      <<"h", "t", "t", "p", "s", ":", "/", "/", "*", "/", "*">> }

has_broad_host_access(host_permissions) ==
    \E i \in 1..Len(host_permissions) :
        \/ host_permissions[i] \in broad_patterns
        \/ Count(host_permissions[i], "*") >= 2

UpperChar(c) ==
    IF \E i \in 1..26 : LowerLetters[i] = c
    THEN UpperLetters[CHOOSE i \in 1..26 : LowerLetters[i] = c]
    ELSE c

\* str.capitalize()
Capitalize(s) == IF s = <<>> THEN s ELSE <<UpperChar(s[1])>> \o Lower(Tail(s))

create_high_risk_extension_finding(extension, finding_id) ==
    Finding(finding_id, "browser_extension", "HIGH",
            T_high_risk \o Capitalize(extension.browser) \o T_extension \o extension.name,
            extension.manifest_path)

create_broad_access_extension_finding(extension, finding_id) ==
    Finding(finding_id, "browser_extension", "MED",
            T_broad_access \o Capitalize(extension.browser) \o T_extension
                \o extension.name,
            extension.manifest_path)

create_suspicious_extension_finding(extension, finding_id) ==
    Finding(finding_id, "browser_extension", "MED",
            T_suspicious \o Capitalize(extension.browser) \o T_extension \o extension.name,
            extension.manifest_path)

create_extension_info_finding(extension, finding_id) ==
    Finding(finding_id, "browser_extension", "INFO",
            Capitalize(extension.browser) \o T_extension \o extension.name,
            extension.manifest_path)

analyze_browser_extension(extension, cfg) ==
    LET ext_id_base == S_browser_ext \o extension.browser \o <<":">> \o extension.id
        permissions == extension.permissions
        host_permissions == extension.host_permissions
        suspicious_perms == identify_suspicious_extension_permissions(permissions)
        high_risk_perms == identify_high_risk_extension_permissions(permissions)
        rule1 ==
            IF high_risk_perms # <<>>
            THEN <<create_high_risk_extension_finding(
                      extension, ext_id_base \o S_high_risk_permissions)>>
            ELSE <<>>
        rule2 ==
            IF has_broad_host_access(host_permissions)
            THEN <<create_broad_access_extension_finding(
                      extension, ext_id_base \o S_broad_access)>>
            ELSE <<>>
        rule3 ==
            IF Len(suspicious_perms) >= 3
            THEN <<create_suspicious_extension_finding(
                      extension, ext_id_base \o S_suspicious_permissions)>>
            ELSE <<>>
        rule4 ==
            IF permissions # <<>> \/ host_permissions # <<>>
            THEN <<create_extension_info_finding(extension, ext_id_base \o S_info)>>
            ELSE <<>>
    IN  rule1 \o rule2 \o rule3 \o rule4

(***************************************************************************)
(* The rule engine called directly: one artifact with the signal results   *)
(* handed in, one call of the analyze_* function of its kind.              *)
(***************************************************************************)
\* Microsoft Corporation, a publisher of the static vendor table
TeamKnown == "UBF8T346G9"
\* a publisher the static vendor table does not list
TeamOther == "TEAM123456"

RuleTeams == {"", TeamKnown, TeamOther}

\* codesign_verify results: None, "ok" / "fail" with or without a team id, "unknown"
RuleCodesign ==
    {<<>>, <<CodesignResult("unknown", "")>>}
    \cup {<<CodesignResult(s, t)>> : s \in {"ok", "fail"}, t \in RuleTeams}

RuleSpctl == {<<>>} \cup {<<SpctlResult(s)>> : s \in {"accepted", "rejected", "unknown"}}

RuleQuarantine ==
    {<<>>, <<NotQuarantined>>, <<FromSafari>>, <<FromHomebrew>>, <<FromNoAgent>>,
     <<QuarantineResult("unknown", <<>>)>>}

RuleConfigs ==
    {<<>>}
    \cup {<<Config(tv, {}, <<>>, hb, old)>> :
             tv \in {{}, {TeamOther}}, hb \in BOOLEAN, old \in BOOLEAN}

\* an app with or without bundle id, with or without App Store receipt, installed 10
\* or 40 days ago
RuleApps ==
    {[AppRecord(<<"/", "1">>, <<"A">>, bid, TRUE, CodesignResult("unknown", ""),
                SpctlResult("unknown"), NotQuarantined, store) EXCEPT !.age_days = age] :
        bid \in {<<"a">>, <<>>}, store \in BOOLEAN, age \in {10, 40}}

S_daemon == <<"d", "a", "e", "m", "o", "n">>
S_user == <<"u", "s", "e", "r">>

RulePrograms ==
    { <<"/", "U", "s", "e", "r", "s", "/", "b", "o", "b", "/", "b", "i", "n", "/", "x">>,
      <<"/", "t", "m", "p", "/", "L">>,
      <<"/", "v", "a", "r", "/", "t", "m", "p", "/", "L">>,
      <<"/", "p", "r", "i", "v", "a", "t", "e", "/", "t", "m", "p", "/", "L">>,
      <<"/", "L", "i", "b", "r", "a", "r", "y", "/", "P", "r", "i", "v", "i", "l", "e", "g",
        "e", "d", "H", "e", "l", "p", "e", "r", "T", "o", "o", "l", "s", "/", "h">> }

RuleItems ==
    {LaunchdRecord(<<"/", "6">>, scope, <<"L">>, program, TRUE, run_at_load,
                   CodesignResult("unknown", ""), SpctlResult("unknown"), NotQuarantined) :
        scope \in {S_daemon, S_user}, program \in RulePrograms, run_at_load \in BOOLEAN}

\* "unsigned" and "invalid" are the verdicts analyze_kext tests for, "ok", "fail" and
\* "unknown" the ones codesign_verify returns
KextStatuses == {"ok", "fail", "unknown", "unsigned", "invalid"}

RuleKexts ==
    {KextRecord(<<"K">>, bid, type, location, loaded, status) :
        bid \in {<<>>, <<(<<"k">>)>>}, type \in {"kext", "systemextension"},
        location \in {"system", "library"}, loaded \in BOOLEAN, status \in KextStatuses}

RulePermissions ==
    {<<>>, <<"storage">>, <<"tabs">>, <<"debugger">>, <<"tabs", "history", "cookies">>,
     <<"tabs", "cookies", "proxy">>, <<"tabs", "tabs", "tabs">>,
     <<"tabs", "storage", "history">>}

RuleHosts ==
    { <<>>,
      <<<<"<", "a", "l", "l", "_", "u", "r", "l", "s", ">">>>>,
      <<<<"*", ":", "/", "/", "*", ".", "e", "x", "a", "m", "p", "l", "e", ".", "c", "o", "m",
        "/", "*">>>>,
      <<<<"h", "t", "t", "p", "s", ":", "/", "/", "e", "x", "a", "m", "p", "l", "e", ".", "c",
        "o", "m", "/", "*">>>> }

RuleExtensions ==
    {ExtensionRecord(browser, <<"E">>, <<"e">>, permissions, host_permissions) :
        browser \in {S_chrome, S_firefox}, permissions \in RulePermissions,
        host_permissions \in RuleHosts}

RuleCall(kind, artifact, codesign_result, spctl_result, quarantine_result, cfg) ==
    [ kind |-> kind, artifact |-> artifact, codesign |-> codesign_result,
      spctl |-> spctl_result, quarantine |-> quarantine_result, config |-> cfg,
      called |-> FALSE, raised |-> FALSE, out |-> <<>> ]

RulesInit ==
    /\ ScanIdle
    /\ b_file = <<>>
    /\ b_findings = <<>>
    /\ b_out = <<>>
    /\ flt = <<>>
    /\ cli = <<>>
    /\ SideIdle
    /\ \/ \E a \in RuleApps, cs \in RuleCodesign, sp \in RuleSpctl, q \in RuleQuarantine,
             cfg \in RuleConfigs : rule = RuleCall("app", a, cs, sp, q, cfg)
       \/ \E a \in RuleItems, cs \in RuleCodesign, sp \in RuleSpctl, q \in RuleQuarantine,
             cfg \in RuleConfigs : rule = RuleCall("launchd", a, cs, sp, q, cfg)
       \/ \E a \in RuleKexts, cfg \in RuleConfigs :
             rule = RuleCall("kext", a, <<>>, <<>>, <<>>, cfg)
       \/ \E a \in RuleExtensions, cfg \in RuleConfigs :
             rule = RuleCall("browser_extension", a, <<>>, <<>>, <<>>, cfg)

RuleReturns(result) ==
    /\ rule' = [rule EXCEPT !.called = TRUE, !.raised = result.raised,
                            !.out = result.findings]
    /\ UNCHANGED <<scan_vars, baseline_vars, flt, cli, side_vars>>

AnalyzeApp ==
    /\ rule.kind = "app"
    /\ ~rule.called
    /\ RuleReturns(Returned(analyze_app(rule.artifact, rule.codesign, rule.spctl,
                                        rule.quarantine, rule.config)))

AnalyzeLaunchd ==
    /\ rule.kind = "launchd"
    /\ ~rule.called
    /\ RuleReturns(Returned(analyze_launchd(rule.artifact, rule.codesign, rule.spctl,
                                            rule.quarantine, rule.config)))

AnalyzeKext ==
    /\ rule.kind = "kext"
    /\ ~rule.called
    /\ RuleReturns(analyze_kext(rule.artifact, rule.config))

AnalyzeBrowserExtension ==
    /\ rule.kind = "browser_extension"
    /\ ~rule.called
    /\ RuleReturns(Returned(analyze_browser_extension(rule.artifact, rule.config)))

RulesNext == AnalyzeApp \/ AnalyzeLaunchd \/ AnalyzeKext \/ AnalyzeBrowserExtension

RulesSpec == RulesInit /\ [][RulesNext]_vars

(***************************************************************************)
(* Claims on the rule engine (RulesSpec)                                   *)
(***************************************************************************)
\* t.endswith(p)
EndsWith(t, p) == Len(p) <= Len(t) /\ SubSeq(t, Len(t) - Len(p) + 1, Len(t)) = p

\* the findings of the call whose id ends with the rule name
RuleFindings(suffix) == SelectSeq(rule.out, LAMBDA f : EndsWith(f.id, suffix))

\* an app or a persistence item went through its analyze_* function
SignalCall == rule.called /\ rule.kind \in {"app", "launchd"}

SignalStatus(result) == IF result = <<>> THEN "absent" ELSE result[1].status

\* the publisher is in the static vendor table or in the override list of the config
KnownOrTrusted ==
    /\ rule.codesign # <<>>
    /\ \/ rule.codesign[1].team_id \in KNOWN_VENDORS
       \/ rule.config # <<>> /\ rule.codesign[1].team_id \in rule.config[1].trusted_vendors

FromAppStore == rule.kind = "app" /\ rule.artifact.is_app_store

\* the age-trust policy is enabled and the app is at least the threshold of days old
AgePolicy ==
    /\ rule.kind = "app"
    /\ rule.config # <<>>
    /\ rule.config[1].trust_old_apps
    /\ rule.artifact.age_days >= rule.config[1].old_app_days

\* {category}:{subject-key} of the artifact of the call
SubjectId ==
    IF rule.kind = "app"
    THEN S_app \o (IF rule.artifact.bundle_id # <<>> THEN rule.artifact.bundle_id
                   ELSE rule.artifact.name)
    ELSE S_persistence \o rule.artifact.scope \o <<":">> \o rule.artifact.label

\* C11 as stated: a failed signature gives exactly one codesign_fail finding, LOW only
\* for a known publisher under the age policy, MED only for a known publisher or an
\* App Store app, HIGH only when neither holds.
C11_SeverityAsStated ==
    (SignalCall /\ SignalStatus(rule.codesign) = "fail") =>
        /\ Len(RuleFindings(S_codesign_fail)) = 1
        /\ LET f == RuleFindings(S_codesign_fail)[1]
           IN  /\ f.risk = "LOW" => (KnownOrTrusted /\ AgePolicy)
               /\ f.risk = "MED" => (KnownOrTrusted \/ FromAppStore)
               /\ f.risk = "HIGH" => (~KnownOrTrusted /\ ~FromAppStore)
               /\ f.risk # "INFO"

\* C11 amended: a failed signature gives exactly one codesign_fail finding with id
\* {category}:{subject-key}:codesign_fail.  For an app it is MED from the App Store,
\* otherwise LOW when the age policy is enabled and the app is old enough (whoever the
\* publisher is), otherwise MED for a known/trusted publisher and HIGH for any other.
\* For a persistence item it is MED for a known/trusted publisher and HIGH otherwise.
C11_CodesignFailSeverity ==
    (SignalCall /\ SignalStatus(rule.codesign) = "fail") =>
        /\ Len(RuleFindings(S_codesign_fail)) = 1
        /\ LET f == RuleFindings(S_codesign_fail)[1]
           IN  /\ f.id = SubjectId \o S_codesign_fail
               /\ f.category = (IF rule.kind = "app" THEN "app" ELSE "persistence")
               /\ f.risk = IF FromAppStore THEN "MED"
                           ELSE IF AgePolicy THEN "LOW"
                           ELSE IF KnownOrTrusted THEN "MED"
                           ELSE "HIGH"

\* an old app of an unknown publisher under the age policy: its failed signature is LOW
C11_Witness ==
    /\ SignalCall
    /\ rule.kind = "app"
    /\ SignalStatus(rule.codesign) = "fail"
    /\ ~KnownOrTrusted
    /\ ~FromAppStore
    /\ AgePolicy
    /\ Len(RuleFindings(S_codesign_fail)) = 1
    /\ RuleFindings(S_codesign_fail)[1].risk = "LOW"

Signed == SignalStatus(rule.codesign) = "ok"

\* C12 as stated: a rejected gatekeeping verdict gives exactly one spctl_rejected
\* finding, MED if the artifact is signed and its publisher known/trusted, HIGH in
\* every other case.
C12_SeverityAsStated ==
    (SignalCall /\ SignalStatus(rule.spctl) = "rejected") =>
        /\ Len(RuleFindings(S_spctl_rejected)) = 1
        /\ RuleFindings(S_spctl_rejected)[1].risk =
               IF Signed /\ KnownOrTrusted THEN "MED" ELSE "HIGH"

\* C12 amended: a rejected gatekeeping verdict gives exactly one spctl_rejected finding
\* with id {category}:{subject-key}:spctl_rejected; it is MED if the artifact is signed
\* and its publisher known/trusted, MED as well for an app from the App Store, and
\* HIGH in every other case; the program path of a persistence item has no effect.
C12_SpctlRejectedSeverity ==
    (SignalCall /\ SignalStatus(rule.spctl) = "rejected") =>
        /\ Len(RuleFindings(S_spctl_rejected)) = 1
        /\ LET f == RuleFindings(S_spctl_rejected)[1]
           IN  /\ f.id = SubjectId \o S_spctl_rejected
               /\ f.category = (IF rule.kind = "app" THEN "app" ELSE "persistence")
               /\ f.risk = IF (Signed /\ KnownOrTrusted) \/ FromAppStore THEN "MED"
                           ELSE "HIGH"

\* an App Store app without a valid signature that the gatekeeper rejects: MED
C12_Witness ==
    /\ SignalCall
    /\ SignalStatus(rule.spctl) = "rejected"
    /\ FromAppStore
    /\ ~Signed
    /\ Len(RuleFindings(S_spctl_rejected)) = 1
    /\ RuleFindings(S_spctl_rejected)[1].risk = "MED"

\* the program of a persistence item lies under one of the user-writable directories,
\* compared as the directories are written
InUserWritableLocation(program) ==
    \E prefix \in USER_WRITABLE_PATHS : StartsWith(program, prefix)

\* C13: a daemon whose program lies in a user-writable location always gets the
\* finding persistence:daemon:<label>:user_writable with severity HIGH, whatever the
\* signals and the config.
C13_UserWritableDaemonHigh ==
    (/\ rule.called
     /\ rule.kind = "launchd"
     /\ rule.artifact.scope = S_daemon
     /\ InUserWritableLocation(rule.artifact.program)) =>
        \E i \in 1..Len(rule.out) :
            /\ rule.out[i].id = S_persistence \o S_daemon \o <<":">> \o rule.artifact.label
                                    \o S_user_writable
            /\ rule.out[i].risk = "HIGH"

\* the quarantine marker is present
Quarantined == rule.quarantine # <<>> /\ rule.quarantine[1].is_quarantined = "true"

\* the marker names Homebrew as the agent that downloaded the file
HomebrewSource == rule.quarantine = <<FromHomebrew>>

HomebrewTrusted == rule.config # <<>> /\ rule.config[1].trust_homebrew_cask

QuarantineFindings == RuleFindings(S_quarantined) \o RuleFindings(S_quarantined_only)

\* C14: a quarantine marker gives exactly one quarantine finding (LOW for an app, MED
\* for a persistence item that runs at load, LOW for one that does not), unless the
\* marker's source is Homebrew and trust_homebrew_cask is enabled: then none.
C14_QuarantineFinding ==
    (SignalCall /\ Quarantined) =>
        IF HomebrewSource /\ HomebrewTrusted
        THEN QuarantineFindings = <<>>
        ELSE /\ Len(QuarantineFindings) = 1
             /\ QuarantineFindings[1].risk =
                    IF rule.kind = "launchd" /\ rule.artifact.run_at_load THEN "MED"
                    ELSE "LOW"
             /\ QuarantineFindings[1].category =
                    (IF rule.kind = "app" THEN "app" ELSE "persistence")

\* a Homebrew download under trust_homebrew_cask: no quarantine finding
C14_Witness ==
    /\ SignalCall
    /\ Quarantined
    /\ HomebrewSource
    /\ HomebrewTrusted
    /\ QuarantineFindings = <<>>

\* the same download with the toggle off, on a persistence item that runs at load
C14_WitnessToggleOff ==
    /\ SignalCall
    /\ rule.kind = "launchd"
    /\ rule.artifact.run_at_load
    /\ HomebrewSource
    /\ rule.config # <<>>
    /\ ~HomebrewTrusted
    /\ Len(QuarantineFindings) = 1
    /\ QuarantineFindings[1].risk = "MED"

\* the analyze_* function of an app or a persistence item
analyze_signals(kind, artifact, codesign_result, spctl_result, quarantine_result, cfg) ==
    IF kind = "app"
    THEN analyze_app(artifact, codesign_result, spctl_result, quarantine_result, cfg)
    ELSE analyze_launchd(artifact, codesign_result, spctl_result, quarantine_result, cfg)

\* the findings of the same call under another config
OutUnder(cfg) ==
    analyze_signals(rule.kind, rule.artifact, rule.codesign, rule.spctl, rule.quarantine,
                    cfg)

WithTrusted(cfg, team_id) ==
    <<[cfg[1] EXCEPT !.trusted_vendors = cfg[1].trusted_vendors \cup {team_id}]>>

WithoutTrusted(cfg, team_id) ==
    <<[cfg[1] EXCEPT !.trusted_vendors = cfg[1].trusted_vendors \ {team_id}]>>

\* C15: adding a team id to trusted_vendors removes no finding and raises no severity;
\* a publisher of the static vendor table is known under every override list (its
\* failed signature is never HIGH); the failed signature of the added publisher keeps
\* its id and is MED where it was HIGH.
C15_OverrideOnlyAddsTrust ==
    (SignalCall /\ rule.config # <<>>) =>
        /\ \A team_id \in {TeamKnown, TeamOther} :
              LET with == OutUnder(WithTrusted(rule.config, team_id))
              IN  /\ \A i \in 1..Len(rule.out) :
                        \E j \in 1..Len(with) :
                            /\ with[j].id = rule.out[i].id
                            /\ SeverityRank(with[j].risk) >= SeverityRank(rule.out[i].risk)
                            /\ (/\ EndsWith(rule.out[i].id, S_codesign_fail)
                                /\ rule.out[i].risk = "HIGH"
                                /\ rule.codesign[1].team_id = team_id)
                               => with[j].risk = "MED"
        /\ (rule.codesign # <<>> /\ rule.codesign[1].team_id \in KNOWN_VENDORS) =>
              \A i \in 1..Len(rule.out) :
                  EndsWith(rule.out[i].id, S_codesign_fail) => rule.out[i].risk # "HIGH"

\* a failed signature of a publisher the override list names: MED, and HIGH with the
\* same id once the publisher is taken off the list
C15_Witness ==
    /\ SignalCall
    /\ rule.config # <<>>
    /\ SignalStatus(rule.codesign) = "fail"
    /\ rule.codesign[1].team_id = TeamOther
    /\ TeamOther \in rule.config[1].trusted_vendors
    /\ Len(RuleFindings(S_codesign_fail)) = 1
    /\ RuleFindings(S_codesign_fail)[1].risk = "MED"
    /\ \E i \in 1..Len(OutUnder(WithoutTrusted(rule.config, TeamOther))) :
          LET f == OutUnder(WithoutTrusted(rule.config, TeamOther))[i]
          IN  f.id = RuleFindings(S_codesign_fail)[1].id /\ f.risk = "HIGH"

\* the signal is None (collector not run or raised) or its status is "unknown"
NoVerdict(result) == SignalStatus(result) \in {"absent", "unknown"}

NoQuarantineVerdict ==
    rule.quarantine = <<>> \/ rule.quarantine[1].is_quarantined = "unknown"

\* C19: a signal that is absent or unknown yields no finding of its rule and no
\* verified notice; when all three signals are absent or unknown the only finding an
\* artifact can get is the one on the daemon's program path, which reads no signal.
C19_NoVerdictNoFinding ==
    SignalCall =>
        /\ NoVerdict(rule.codesign) =>
              RuleFindings(S_codesign_fail) = <<>> /\ RuleFindings(S_verified) = <<>>
        /\ NoVerdict(rule.spctl) =>
              RuleFindings(S_spctl_rejected) = <<>> /\ RuleFindings(S_verified) = <<>>
        /\ NoQuarantineVerdict => QuarantineFindings = <<>>
        /\ (NoVerdict(rule.codesign) /\ NoVerdict(rule.spctl) /\ NoQuarantineVerdict) =>
              \A i \in 1..Len(rule.out) : EndsWith(rule.out[i].id, S_user_writable)

\* an app whose signature check returned unknown, whose gatekeeper check raised and
\* whose quarantine state is unknown: no finding
C19_Witness ==
    /\ SignalCall
    /\ rule.kind = "app"
    /\ SignalStatus(rule.codesign) = "unknown"
    /\ rule.spctl = <<>>
    /\ rule.quarantine # <<>>
    /\ rule.quarantine[1].is_quarantined = "unknown"
    /\ rule.out = <<>>

\* the category field of a finding as it would be written at the head of an id
CategorySegment(category) ==
    CASE category = "app" -> S_app
      [] category = "persistence" -> S_persistence
      [] category = "kext" -> S_kext
      [] category = "browser_extension" ->
            <<"b", "r", "o", "w", "s", "e", "r", "_", "e", "x", "t", "e", "n", "s",
              "i", "o", "n", ":">>

\* the category of the findings an artifact of this kind gets
CategoryOfKind(kind) ==
    CASE kind = "app" -> "app"
      [] kind = "launchd" -> "persistence"
      [] kind = "kext" -> "kext"
      [] kind = "browser_extension" -> "browser_extension"

\* the id prefix of the artifact of the call, from its identifying fields alone
IdBase ==
    CASE rule.kind \in {"app", "launchd"} -> SubjectId
      [] rule.kind = "kext" ->
            S_kext \o (IF rule.artifact.bundle_id # <<>> THEN rule.artifact.bundle_id[1]
                       ELSE rule.artifact.name)
      [] rule.kind = "browser_extension" ->
            S_browser_ext \o rule.artifact.browser \o <<":">> \o rule.artifact.id

\* the rule names of each kind
RuleNames(kind) ==
    CASE kind = "app" -> {S_codesign_fail, S_spctl_rejected, S_quarantined, S_verified}
      [] kind = "launchd" -> {S_codesign_fail, S_spctl_rejected, S_user_writable,
                              S_quarantined, S_quarantined_only}
      [] kind = "kext" -> {S_unsigned, S_invalid_signature}
      [] kind = "browser_extension" -> {S_high_risk_permissions, S_broad_access,
                                        S_suspicious_permissions, S_info}

\* C16 as stated: the leading segment of every id is the finding's category field
C16_LeadingSegmentIsCategory ==
    rule.called =>
        \A i \in 1..Len(rule.out) :
            StartsWith(rule.out[i].id, CategorySegment(rule.out[i].category))

\* C16 amended: every id is {prefix}:{subject-key}:{rule-name}, where the prefix is app,
\* persistence, kext or browser_ext (the category field, but for browser extensions,
\* whose category field is browser_extension), the subject key is the bundle id (the
\* name without one) of an app or kext, scope:label of a persistence item and
\* browser:id of a browser extension, and the rule name is one of the rules of the
\* kind; the findings of one call carry the category of the artifact's kind.
C16_IdForm ==
    rule.called =>
        \A i \in 1..Len(rule.out) :
            /\ rule.out[i].category = CategoryOfKind(rule.kind)
            /\ \E name \in RuleNames(rule.kind) : rule.out[i].id = IdBase \o name

\* a browser extension with a high-risk permission: category browser_extension, id
\* browser_ext:<browser>:<id>:high_risk_permissions
C16_Witness ==
    /\ rule.called
    /\ rule.kind = "browser_extension"
    /\ \E i \in 1..Len(rule.out) :
          /\ rule.out[i].category = "browser_extension"
          /\ rule.out[i].id = IdBase \o S_high_risk_permissions
          /\ StartsWith(rule.out[i].id, S_browser_ext)

(***************************************************************************)
(* Further properties of run_scan                                          *)
(***************************************************************************)
\* C17: the findings of one report carry pairwise distinct ids
C17_IdsUniqueInReport ==
    Done => \A i, j \in 1..Len(report) : i # j => report[i].id # report[j].id

\* the artifact for which the injected call fails, and whether it is artifact i of cat
IsFailing(cat, i) == inject.cat = cat /\ inject.idx = i

\* the no-failure findings of the first n artifacts of a category, the failing one left out
RECURSIVE SiblingsUpTo(_, _)
SiblingsUpTo(cat, n) ==
    IF n = 0 THEN <<>>
    ELSE SiblingsUpTo(cat, n - 1)
         \o (IF IsFailing(cat, n) THEN <<>> ELSE NoFailureFindings(cat, Inventory(cat)[n]))

SiblingFindings(cat) ==
    IF cat \in enum_failed THEN <<>> ELSE SiblingsUpTo(cat, Len(Inventory(cat)))

\* the findings in the report that belong to the artifact for which the call failed
FailingArtifactFindings ==
    SelectSeq(report,
              LAMBDA f : f \in Range(NoFailureFindings(inject.cat,
                                                       Inventory(inject.cat)[inject.idx])))

RuleFailure == inject.kind = "rules" /\ inject.cat \notin enum_failed

C20_AllCategoriesReported ==
    Done =>
        /\ \A i \in 1..Len(kexts_inv) :
              (kexts_inv[i].location # "system"
               /\ kexts_inv[i].codesign[1].status = "invalid") =>
                  \E k \in 1..Len(report) :
                      /\ report[k].category = "kext"
                      /\ report[k].id = S_kext \o kexts_inv[i].bundle_id[1]
                                            \o S_invalid_signature
        /\ \A i \in 1..Len(extensions_inv) :
              (\E p \in 1..Len(extensions_inv[i].permissions) :
                   extensions_inv[i].permissions[p] \in HIGH_RISK_PERMISSIONS) =>
                  \E k \in 1..Len(report) :
                      /\ report[k].category = "browser_extension"
                      /\ report[k].id = S_browser_ext \o extensions_inv[i].browser
                                            \o <<":">> \o extensions_inv[i].id
                                            \o S_high_risk_permissions

(***************************************************************************)
(* models.py called directly: one comparison of Risk members, or one       *)
(* ScanReport.get_findings_by_risk(min_risk)                               *)
(***************************************************************************)
MaxReportLen == 3

\* ScanReport.get_findings_by_risk: [f for f in self.findings if f.risk <= min_risk]
get_findings_by_risk(fs, min_risk) == SelectSeq(fs, LAMBDA f : Risk__le__(f.risk, min_risk))

Digits == <<"1", "2", "3", "4", "5", "6", "7", "8", "9">>

\* the findings of a report whose k-th finding has the risk rs[k]
ReportOf(rs) ==
    [k \in 1..Len(rs) |->
        Finding(<<"a", "p", "p", ":", Digits[k]>>, "app", rs[k],
                <<"T">>, <<"/">>)]

NoCmp == [lt |-> FALSE, le |-> FALSE, gt |-> FALSE, ge |-> FALSE, eq |-> FALSE,
          lt_ba |-> FALSE, lt_bc |-> FALSE, lt_ac |-> FALSE]

LibCall(call, a, b, c, fs, min_risk) ==
    [call |-> call, a |-> a, b |-> b, c |-> c, findings |-> fs, min_risk |-> min_risk,
     called |-> FALSE, cmp |-> NoCmp, out |-> <<>>]

\* no scan, no baseline, no filter, no CLI run and no rule call is in progress
MainIdle ==
    /\ ScanIdle
    /\ b_file = <<>> /\ b_findings = <<>> /\ b_out = <<>>
    /\ flt = <<>> /\ cli = <<>> /\ rule = <<>>

ModelsInit ==
    /\ MainIdle
    /\ pool = <<>> /\ ctx = <<>>
    /\ \/ \E a, b, c \in Risk : lib = LibCall("compare", a, b, c, <<>>, "LOW")
       \/ \E rs \in SeqsUpTo(Risk, MaxReportLen), m \in Risk :
             lib = LibCall("get_findings_by_risk", "LOW", "LOW", "LOW", ReportOf(rs), m)

\* a < b, a <= b, a > b, a >= b, a == b, and b < a, b < c, a < c
Compare ==
    /\ lib.call = "compare"
    /\ ~lib.called
    /\ lib' = [lib EXCEPT !.called = TRUE,
                          !.cmp = [lt |-> Risk__lt__(lib.a, lib.b),
                                   le |-> Risk__le__(lib.a, lib.b),
                                   gt |-> Risk__gt__(lib.a, lib.b),
                                   ge |-> Risk__ge__(lib.a, lib.b),
                                   eq |-> lib.a = lib.b,
                                   lt_ba |-> Risk__lt__(lib.b, lib.a),
                                   lt_bc |-> Risk__lt__(lib.b, lib.c),
                                   lt_ac |-> Risk__lt__(lib.a, lib.c)]]
    /\ UNCHANGED <<scan_vars, baseline_vars, flt, cli, rule, pool, ctx>>

GetFindingsByRisk ==
    /\ lib.call = "get_findings_by_risk"
    /\ ~lib.called
    /\ lib' = [lib EXCEPT !.called = TRUE,
                          !.out = get_findings_by_risk(lib.findings, lib.min_risk)]
    /\ UNCHANGED <<scan_vars, baseline_vars, flt, cli, rule, pool, ctx>>

ModelsNext == Compare \/ GetFindingsByRisk

ModelsSpec == ModelsInit /\ [][ModelsNext]_vars

Compared == lib # <<>> /\ lib.call = "compare" /\ lib.called

\* exactly one of the three holds
ExactlyOne(p, q, r) == (p /\ ~q /\ ~r) \/ (~p /\ q /\ ~r) \/ (~p /\ ~q /\ r)

\* C25: the comparison operators of Risk define one strict total order with
\* HIGH > MED > LOW > INFO: for all members a, b, c exactly one of a < b, a == b,
\* b < a holds; a <= b iff a < b or a == b; a >= b iff not a < b; a > b iff b < a;
\* and a < b, b < c give a < c.
C25_RiskTotalOrder ==
    Compared =>
        /\ ExactlyOne(lib.cmp.lt, lib.cmp.eq, lib.cmp.lt_ba)
        /\ lib.cmp.le <=> (lib.cmp.lt \/ lib.cmp.eq)
        /\ lib.cmp.ge <=> ~lib.cmp.lt
        /\ lib.cmp.gt <=> lib.cmp.lt_ba
        /\ (lib.cmp.lt /\ lib.cmp.lt_bc) => lib.cmp.lt_ac
        /\ (<<lib.a, lib.b>> \in {<<"HIGH", "MED">>, <<"MED", "LOW">>, <<"LOW", "INFO">>})
               => lib.cmp.gt

\* a chain INFO < LOW < HIGH has been compared
C25_Witness ==
    /\ Compared
    /\ lib.a = "INFO" /\ lib.b = "LOW" /\ lib.c = "HIGH"
    /\ lib.cmp.lt /\ lib.cmp.lt_bc /\ lib.cmp.lt_ac

Filtered_by_risk == lib # <<>> /\ lib.call = "get_findings_by_risk" /\ lib.called

\* a finding of risk r is at or above the minimum m
AtOrAbove(r, m) == SeverityRank(r) <= SeverityRank(m)

\* C28: get_findings_by_risk(min_risk) returns exactly the findings whose severity is
\* at or above min_risk, in report order (min_risk = LOW: every HIGH, MED and LOW
\* finding and no INFO finding; min_risk = HIGH: only the HIGH findings).
C28_AtOrAboveMinRisk ==
    Filtered_by_risk =>
        lib.out = SelectSeq(lib.findings, LAMBDA f : AtOrAbove(f.risk, lib.min_risk))

\* what the code returns: the findings at or below min_risk, in report order
C28_AtOrBelowMinRisk ==
    Filtered_by_risk =>
        lib.out = SelectSeq(lib.findings, LAMBDA f : AtOrAbove(lib.min_risk, f.risk))

\* min_risk = LOW on a report with a HIGH and an INFO finding
C28_Witness ==
    /\ Filtered_by_risk
    /\ lib.min_risk = "LOW"
    /\ \E k \in 1..Len(lib.findings) : lib.findings[k].risk = "HIGH"
    /\ \E k \in 1..Len(lib.out) : lib.out[k].risk = "INFO"

(***************************************************************************)
(* analyze_kext and analyze_browser_extension: further properties          *)
(***************************************************************************)
KextCall == rule # <<>> /\ rule.called /\ rule.kind = "kext"

KextStatus == IF rule.artifact.codesign # <<>> THEN rule.artifact.codesign[1].status
              ELSE "unknown"

\* the extension lies outside the system location and its signature is unsigned or invalid
KextFlagged == rule.artifact.location # "system" /\ KextStatus \in {"unsigned", "invalid"}

\* C26: analyze_kext returns a finding exactly when the extension is not in the system
\* location and its signature status is unsigned or invalid; the finding is HIGH, there
\* is at most one per extension, and an extension in the system location yields none.
C26_KextFindingIff ==
    KextCall =>
        /\ ~rule.raised
        /\ Len(rule.out) <= 1
        /\ (Len(rule.out) = 1) <=> KextFlagged
        /\ \A k \in 1..Len(rule.out) : rule.out[k].risk = "HIGH"

\* what the code does: the call returns no finding in any case, and it raises
\* exactly for the extensions that should have been reported
C26_FlaggedKextRaises ==
    KextCall => /\ rule.out = <<>>
                /\ rule.raised <=> KextFlagged

\* a third-party extension with an invalid signature went through analyze_kext
C26_Witness ==
    /\ KextCall
    /\ rule.artifact.location = "library"
    /\ KextStatus = "invalid"
    /\ rule.raised

ExtensionCall == rule # <<>> /\ rule.called /\ rule.kind = "browser_extension"

\* the call returned the suspicious_permissions finding, at MED
HasSuspiciousFinding ==
    \E k \in 1..Len(rule.out) :
        EndsWith(rule.out[k].id, S_suspicious_permissions) /\ rule.out[k].risk = "MED"

\* the distinct listed permissions that are suspicious and not high-risk
DistinctSuspiciousNotHighRisk ==
    Range(rule.artifact.permissions) \cap (SUSPICIOUS_PERMISSIONS \ HIGH_RISK_PERMISSIONS)

\* the entries of the permissions list that are keys of the suspicious table
SuspiciousEntries ==
    {i \in 1..Len(rule.artifact.permissions) :
        rule.artifact.permissions[i] \in SUSPICIOUS_PERMISSIONS}

\* C27 (as claimed): an extension gets the MED suspicious_permissions finding iff it
\* holds at least 3 distinct permissions of the suspicious set that are not in the
\* high-risk set: a repeated entry counts once, a high-risk permission does not count.
C27_DistinctNotHighRisk ==
    ExtensionCall => (HasSuspiciousFinding <=> Cardinality(DistinctSuspiciousNotHighRisk) >= 3)

\* C27 (amended): an extension gets the suspicious_permissions finding, at MED and once,
\* iff at least 3 entries of its permissions list are keys of the suspicious table; the
\* high-risk permissions are keys of that table and an entry counts each time it occurs.
C27_SuspiciousEntries ==
    ExtensionCall =>
        /\ HasSuspiciousFinding <=> Cardinality(SuspiciousEntries) >= 3
        /\ Len(RuleFindings(S_suspicious_permissions)) <= 1
        /\ \A k \in 1..Len(rule.out) :
              EndsWith(rule.out[k].id, S_suspicious_permissions) => rule.out[k].risk = "MED"

\* two suspicious permissions and a high-risk one: the finding is there
C27_Witness ==
    /\ ExtensionCall
    /\ rule.artifact.permissions = <<"tabs", "cookies", "proxy">>
    /\ HasSuspiciousFinding

(***************************************************************************)
(* run_scan in parallel mode: the aggregate of a category                  *)
(***************************************************************************)
\* what the worker of artifact i of the category returns, or that it raised
ResultOf(cat, i) == analyze_single(cat, Inventory(cat)[i], config, FailOf(inject, cat, i))

\* the lists returned by the workers of S that did not raise, one after the other
RECURSIVE ReturnedBy(_, _, _)
ReturnedBy(cat, S, n) ==
    IF n = 0 THEN <<>>
    ELSE ReturnedBy(cat, S, n - 1)
             \o (IF n \in S /\ ~ResultOf(cat, n).raised THEN ResultOf(cat, n).findings
                 ELSE <<>>)

\* the aggregate the category hands to run_scan when its pool has finished
PoolAggregate(cat) ==
    IF cat \in enum_failed THEN <<>>
    ELSE ReturnedBy(cat, 1..Len(Inventory(cat)), Len(Inventory(cat)))

\* C29: in parallel mode the aggregate of a category is, once the pool has finished, the
\* multiset union of the lists returned by the workers that did not raise, in every
\* interleaving of completions: nothing is lost, duplicated or taken from a failed
\* worker. While the pool runs the aggregate holds the lists of the futures the
\* coordinating thread has collected and nothing else: a worker that is running or has
\* finished without being collected has put nothing into it.
C29_AggregateIsUnionOfReturned ==
    parallel =>
        /\ pc.at = "par" =>
              BagOfSeq(findings)
                  = BagOfSeq(ReturnedBy(pc.cat, {i \in DOMAIN futures : futures[i] = "collected"},
                                        Len(futures)))
        /\ pc = At("enum", "launchd") =>
              BagOfSeq(all_findings) = BagOfSeq(PoolAggregate("app"))
        /\ pc.at = "assemble" =>
              BagOfSeq(all_findings)
                  = BagOfSeq(PoolAggregate("app") \o PoolAggregate("launchd"))

\* the pool of two apps has finished: one worker raised, the other returned findings,
\* and the aggregate is not empty
C29_Witness ==
    /\ parallel
    /\ pc = At("enum", "launchd")
    /\ Len(apps_inv) = 2
    /\ "app" \notin enum_failed
    /\ \E i, j \in 1..2 : /\ ResultOf("app", i).raised
                          /\ ResultOf("app", j).findings # <<>>
    /\ all_findings # <<>>

(***************************************************************************)
(* run_scan under fair scheduling: the coordinating thread goes on whenever *)
(* it can, every pool thread is scheduled, and every collector call ends    *)
(* (util/shell.run bounds each child process by a timeout)                  *)
(***************************************************************************)
LiveInit ==
    /\ apps_inv \in {s \in SeqsUpTo(AppProfiles, MaxArtifacts) : Distinct(s)}
    /\ launchd_inv \in {s \in SeqsUpTo(LaunchdProfiles, MaxArtifacts - Len(apps_inv)) :
                            Distinct(s)}
    /\ kexts_inv = <<>>
    /\ extensions_inv = <<>>
    /\ inject \in Injections(apps_inv, launchd_inv) \cup {AllCollectorsFail}
    /\ config \in ScanConfigs
    /\ parallel \in BOOLEAN
    /\ pc = At("host", "none")
    /\ enum_failed = {}
    /\ futures = <<>>
    /\ cursor = 0
    /\ findings = <<>>
    /\ all_findings = <<>>
    /\ report = <<>>
    /\ Idle

\* where the scan is: the statement of run_scan, the loop index, the futures
Position == <<pc, cursor, futures>>

\* run_scan has neither returned nor raised
InProgress == pc.at \notin {"done", "fatal"}

Positions ==
    ({At(at, cat) : at \in {"host", "fatal", "assemble", "done"}, cat \in {"none"}}
         \cup {At(at, cat) : at \in {"enum", "seq", "par"}, cat \in Categories})
    \X (0..MaxArtifacts)
    \X SeqsUpTo({"running", "finished", "collected"}, MaxArtifacts)

\* some thread of the scan takes its next step. Every step of Next moves the position
\* and a scan in progress always has a step to take (C21_EveryStepAdvances and the
\* absence of deadlock before "done" and "fatal"), so this is Next seen through the
\* position, with an enabling condition that reads no finding.
Advance ==
    /\ InProgress
    /\ \E p \in Positions : p # Position /\ pc' = p[1] /\ cursor' = p[2] /\ futures' = p[3]

LiveSpec == LiveInit /\ [][Next]_vars /\ WF_Position(Advance)

\* the report of a finished scan holds what every artifact's analysis returned
CompleteReport ==
    BagOfSeq(report)
        = BagOfSeq(Filtered(PoolAggregate("app") \o PoolAggregate("launchd")))

\* C21: once the host information is there, the scan eventually returns, in sequential
\* and in parallel mode, and the report it returns is complete: every artifact has been
\* analysed, also when every collector call of every artifact fails or times out.
C21_ScanTerminates ==
    /\ (pc = At("enum", "app")) ~> Done
    /\ [](Done => CompleteReport)

\* every step of the scan moves its position: no step leaves the scan where it was
C21_EveryStepAdvances == [][Position' # Position]_vars

\* a finished scan of two artifacts all of whose collector calls failed
C21_Witness ==
    /\ Done
    /\ inject = AllCollectorsFail
    /\ Len(apps_inv) + Len(launchd_inv) = 2
    /\ enum_failed = {}

(***************************************************************************)
(* engine.py: the thread pool of one category                              *)
(*   with ThreadPoolExecutor(max_workers=max_workers) as executor:         *)
(*       {executor.submit(_analyze_single_app, app, config): app ...}      *)
(* a task is pending until a pool thread takes it, running while the       *)
(* thread analyses the artifact, done afterwards                           *)
(***************************************************************************)
MaxTasks == 10

PoolInit ==
    /\ MainIdle
    /\ lib = <<>> /\ ctx = <<>>
    /\ \E n \in 1..MaxTasks :
          pool = [n |-> n, max_workers |-> max_workers(n), submitted |-> 0,
                  tasks |-> [i \in 1..n |-> "pending"]]

Running == {i \in DOMAIN pool.tasks : pool.tasks[i] = "running"}

\* executor.submit(...) for the next artifact of the inventory
PoolSubmit ==
    /\ pool.submitted < pool.n
    /\ pool' = [pool EXCEPT !.submitted = pool.submitted + 1]
    /\ UNCHANGED <<scan_vars, baseline_vars, flt, cli, rule, lib, ctx>>

\* a pool thread takes the oldest submitted task; the pool has at most max_workers threads
PoolStart(i) ==
    /\ i <= pool.submitted
    /\ pool.tasks[i] = "pending"
    /\ \A j \in 1..(i - 1) : pool.tasks[j] # "pending"
    /\ Cardinality(Running) < pool.max_workers
    /\ pool' = [pool EXCEPT !.tasks[i] = "running"]
    /\ UNCHANGED <<scan_vars, baseline_vars, flt, cli, rule, lib, ctx>>

\* _analyze_single_app / _analyze_single_launchd returns or raises: the thread is free
PoolFinish(i) ==
    /\ pool.tasks[i] = "running"
    /\ pool' = [pool EXCEPT !.tasks[i] = "done"]
    /\ UNCHANGED <<scan_vars, baseline_vars, flt, cli, rule, lib, ctx>>

PoolNext ==
    \/ PoolSubmit
    \/ \E i \in DOMAIN pool.tasks : PoolStart(i)
    \/ \E i \in DOMAIN pool.tasks : PoolFinish(i)

PoolSpec == PoolInit /\ [][PoolNext]_vars

\* C23: in parallel mode the number of artifacts of a category that are analysed at the
\* same time never exceeds 8, whatever the size of the inventory.
C23_AtMostEightAtOnce ==
    pool # <<>> => Cardinality(Running) <= MAX_WORKERS

\* eight artifacts of an inventory of more than eight are analysed at once and a
\* submitted one waits
C23_Witness ==
    /\ pool # <<>>
    /\ pool.n > MAX_WORKERS
    /\ Cardinality(Running) = MAX_WORKERS
    /\ \E i \in 1..pool.submitted : pool.tasks[i] = "pending"

(***************************************************************************)
(* context.py: the Homebrew lookup of AppContext in a process that runs    *)
(* scans. AppContext._homebrew_apps is an attribute of the class: it lives *)
(* as long as the process. Each app's analysis builds one AppContext,      *)
(* whose _check_homebrew tests hasattr and then assigns, with no lock.     *)
(***************************************************************************)
MaxScans == 2
MaxContexts == 4

\* cache: <<>> while the class has no _homebrew_apps, else <<k>>: computed in scan k
\* lookups: the runs of "brew list --cask" in the current scan
\* read_from: the scans whose lookup result was used by the current scan
\* at[w]: where the analysis of app w is in _check_homebrew
CtxInit ==
    /\ MainIdle
    /\ lib = <<>> /\ pool = <<>>
    /\ \E n \in 1..MaxContexts, par \in BOOLEAN :
          ctx = [scan |-> 1, parallel |-> par, cache |-> <<>>, lookups |-> 0,
                 read_from |-> {}, at |-> [w \in 1..n |-> "start"]]

\* the analysis of app w may run: any time in a pool, after its predecessors in the loop
Scheduled(w) == ctx.parallel \/ \A v \in 1..(w - 1) : ctx.at[v] = "done"

\* "if not hasattr(AppContext, '_homebrew_apps')" and, when the attribute is there,
\* "app_name in AppContext._homebrew_apps"
CheckHomebrew(w) ==
    /\ ctx.at[w] = "start"
    /\ Scheduled(w)
    /\ IF ctx.cache = <<>>
       THEN ctx' = [ctx EXCEPT !.at[w] = "lookup"]
       ELSE ctx' = [ctx EXCEPT !.at[w] = "done",
                               !.read_from = ctx.read_from \cup {ctx.cache[1]}]
    /\ UNCHANGED <<scan_vars, baseline_vars, flt, cli, rule, lib, pool>>

\* "AppContext._homebrew_apps = self._get_homebrew_apps()" and the membership test
GetHomebrewApps(w) ==
    /\ ctx.at[w] = "lookup"
    /\ ctx' = [ctx EXCEPT !.at[w] = "done",
                          !.cache = <<ctx.scan>>,
                          !.lookups = ctx.lookups + 1,
                          !.read_from = ctx.read_from \cup {ctx.scan}]
    /\ UNCHANGED <<scan_vars, baseline_vars, flt, cli, rule, lib, pool>>

\* run_scan returns and the process calls run_scan again: the class keeps its attribute
NextScan ==
    /\ \A w \in DOMAIN ctx.at : ctx.at[w] = "done"
    /\ ctx.scan < MaxScans
    /\ \E par \in BOOLEAN :
          ctx' = [ctx EXCEPT !.scan = ctx.scan + 1, !.parallel = par, !.lookups = 0,
                             !.read_from = {},
                             !.at = [w \in DOMAIN ctx.at |-> "start"]]
    /\ UNCHANGED <<scan_vars, baseline_vars, flt, cli, rule, lib, pool>>

CtxNext ==
    \/ \E w \in DOMAIN ctx.at : CheckHomebrew(w)
    \/ \E w \in DOMAIN ctx.at : GetHomebrewApps(w)
    \/ NextScan

ContextSpec == CtxInit /\ [][CtxNext]_vars

\* C22: the Homebrew membership lookup is computed at most once per scan, also when the
\* scan runs with parallel workers, and it is scoped to the scan: a scan never uses the
\* lookup of an earlier scan of the same process.
C22_OncePerScanAndScoped ==
    ctx # <<>> =>
        /\ ctx.lookups <= 1
        /\ ctx.read_from \subseteq {ctx.scan}

\* what the code does: a sequential first scan computes the lookup once, and every later
\* scan of the process computes nothing and uses the lookup of the first scan
C22_OncePerProcessWhenSequential ==
    ctx # <<>> =>
        /\ (ctx.scan = 1 /\ ~ctx.parallel) => ctx.lookups <= 1
        /\ ctx.scan > 1 => ctx.lookups = 0 /\ ctx.read_from \subseteq {1}

\* two workers of one parallel scan have each computed the lookup
C22_WitnessRace == ctx # <<>> /\ ctx.parallel /\ ctx.lookups >= 2

\* a second scan has used the lookup of the first
C22_WitnessStale == ctx # <<>> /\ ctx.scan = 2 /\ 1 \in ctx.read_from

(***************************************************************************)
(* analyze_app / analyze_launchd evaluated twice with the same arguments.  *)
(* analyze_app builds AppContext(path), which reads the host at each call: *)
(* whether <bundle>/Contents/_MASReceipt/receipt exists, and the days      *)
(* between the bundle's mtime and datetime.now().                          *)
(***************************************************************************)
\* what AppContext finds for the app's path at the time of a call
HostFacts == [is_app_store : BOOLEAN, age_days : {10, 40}]

\* the app record with the context analyze_app builds for it on this host
WithContext(app, host) ==
    [app EXCEPT !.is_app_store = host.is_app_store, !.age_days = host.age_days]

RepeatCodesign ==
    {<<CodesignResult("fail", TeamOther)>>, <<CodesignResult("fail", TeamKnown)>>,
     <<CodesignResult("ok", TeamOther)>>}
RepeatSpctl == {<<SpctlResult("rejected")>>, <<SpctlResult("accepted")>>}
RepeatQuarantine == {<<NotQuarantined>>, <<FromSafari>>}
RepeatApps == {a \in RuleApps : ~a.is_app_store /\ a.age_days = 10}
RepeatItems == {i \in RuleItems : i.run_at_load}

RepeatCall(kind, artifact, cs, sp, q, cfg, host) ==
    [ kind |-> kind, artifact |-> artifact, codesign |-> cs, spctl |-> sp,
      quarantine |-> q, config |-> cfg, host |-> host, evals |-> <<>> ]

RepeatInit ==
    /\ ScanIdle
    /\ b_file = <<>> /\ b_findings = <<>> /\ b_out = <<>>
    /\ flt = <<>> /\ cli = <<>>
    /\ SideIdle
    /\ \E cs \in RepeatCodesign, sp \in RepeatSpctl, q \in RepeatQuarantine,
          cfg \in RuleConfigs, host \in HostFacts :
          \/ \E a \in RepeatApps : rule = RepeatCall("app", a, cs, sp, q, cfg, host)
          \/ \E i \in RepeatItems : rule = RepeatCall("launchd", i, cs, sp, q, cfg, host)

\* variant of fresh_findings: the list of findings outlives the call
shared_findings(evals) ==
    IF evals = <<>> THEN <<>> ELSE evals[Len(evals)].out

\* "findings = []": each call starts from a new list
fresh_findings(evals) == <<>>

\* one evaluation of the rule function on the arguments held in `rule`
Evaluate ==
    /\ Len(rule.evals) < 2
    /\ LET out == fresh_findings(rule.evals)
                      \o (IF rule.kind = "app"
                          THEN analyze_app(WithContext(rule.artifact, rule.host),
                                           rule.codesign, rule.spctl, rule.quarantine,
                                           rule.config)
                          ELSE analyze_launchd(rule.artifact, rule.codesign, rule.spctl,
                                               rule.quarantine, rule.config))
       IN  rule' = [rule EXCEPT !.evals = Append(rule.evals, [host |-> rule.host, out |-> out])]
    /\ UNCHANGED <<scan_vars, baseline_vars, flt, cli, side_vars>>

\* between the two evaluations the host changes: time passes, the bundle is updated,
\* an App Store receipt appears or goes away
HostChanges ==
    /\ Len(rule.evals) = 1
    /\ \E host \in HostFacts : host # rule.host /\ rule' = [rule EXCEPT !.host = host]
    /\ UNCHANGED <<scan_vars, baseline_vars, flt, cli, side_vars>>

RepeatNext == Evaluate \/ HostChanges

RepeatSpec == RepeatInit /\ [][RepeatNext]_vars

EvaluatedTwice == rule # <<>> /\ Len(rule.evals) = 2

C24_WitnessAgeChanges ==
    /\ EvaluatedTwice
    /\ rule.kind = "app"
    /\ rule.evals[1].host.age_days = 10 /\ rule.evals[2].host.age_days = 40
    /\ \E k \in 1..Len(rule.evals[1].out) : rule.evals[1].out[k].risk = "HIGH"
    /\ \E k \in 1..Len(rule.evals[2].out) :
          /\ rule.evals[2].out[k].risk = "LOW"
          /\ rule.evals[2].out[k].id = rule.evals[1].out[k].id

(***************************************************************************)
(* cli.py: which snapshot the run's findings are diffed against            *)
(*   cli.loaded is the snapshot baseline.load() found before the scan      *)
(***************************************************************************)
\* the run has computed the findings it is going to render
Diffed == cli # <<>> /\ cli.at = "render"

\* the findings the run shows when it diffs the report against the snapshot `snapshot`
ShownAgainst(snapshot) ==
    LET r == IF cli.use_diff_mode /\ cli.baseline_exists
             THEN filter_new_findings(snapshot, cli.report)
             ELSE Returned(cli.report)
    IN  min_risk_filter(r.findings, cli.opts, cli.config)

\* C30: in one run the baseline used for diffing is the snapshot that existed before
\* the run's scan: also with --save-baseline and an output that goes on (--json), the
\* new and changed findings are computed against the snapshot loaded at the start, not
\* against the one just saved; with --show-all there is no baseline filtering at all.
C30_DiffAgainstLoadedSnapshot ==
    Diffed =>
        /\ cli.filtered_findings = ShownAgainst(cli.loaded)
        /\ cli.opts.show_all =>
              cli.filtered_findings = min_risk_filter(cli.report, cli.opts, cli.config)

\* what the code does: the diff uses the Baseline object as it is after save(), that is
\* the snapshot of this run's own report when --save-baseline was given
C30_DiffAgainstObjectAfterSave ==
    Diffed =>
        /\ cli.filtered_findings = ShownAgainst(b_findings)
        /\ cli.saved => b_findings = Dict(snapshot_entries(cli.report))
        /\ ~cli.saved => b_findings = cli.loaded
        /\ cli.opts.show_all =>
              cli.filtered_findings = min_risk_filter(cli.report, cli.opts, cli.config)

\* a run with an existing snapshot, --save-baseline and --json whose report holds
\* findings that are new against the loaded snapshot, and which shows none of them
C30_Witness ==
    /\ Diffed
    /\ cli.saved /\ cli.opts.json /\ cli.baseline_exists /\ cli.use_diff_mode
    /\ cli.opts.verbose
    /\ ShownAgainst(cli.loaded) # <<>>
    /\ cli.filtered_findings = <<>>

====
